---- MODULE Spec2Model ----
(***************************************************************************)
(* The Canvas data-access client (src/src/canvas/client.py) as a state     *)
(* machine.  One client operation runs at a time.  An operation that       *)
(* issues one request, or a fixed pair of requests, is one action; an      *)
(* operation that loops over courses, or gathers several sections, blocks  *)
(* at each request, and pc records where it stands.  The remote LMS is the *)
(* environment: every request draws its HTTP response from a bounded set.  *)
(***************************************************************************)
EXTENDS Integers, Sequences, FiniteSets, TLC

VARIABLES
    pc,     \* "idle", "done", or the request an operation is blocked at
    op,     \* the client operation in progress or just finished
    args,   \* its arguments
    loc,    \* its local variables
    resp,   \* the HTTP response(s) its most recent step received
    ret,    \* its outcome once pc = "done": a returned value or a raised exception
    log,    \* the HTTP requests it has issued, in order
    statuses, \* the status each of them was answered with, in the same order
    out,    \* the diagnostic lines it has printed, in order
    reply,  \* what the MCP tool of the operation has handed to the orchestrator
    chats,    \* the chat sessions of the UI: where each is, what it holds open
    log_file, \* token_usage.jsonl: whether it exists, and its lines
    calls     \* the log_usage calls made so far, in order

\* The state of the Canvas client and its tools, and the state of the chat
\* application with its token log.
clientvars == <<pc, op, args, loc, resp, ret, log, statuses, out, reply>>
appvars == <<chats, log_file, calls>>

vars == <<pc, op, args, loc, resp, ret, log, statuses, out, reply, chats, log_file, calls>>

(* ------------------------------ bounds -------------------------------- *)

MaxCourses == 2
MaxAssign == 2
MaxDays == 2
MaxNow == 1
MaxAnn == 4
MaxModules == 2
MaxFiles == 2
MaxDiscussions == 2
MaxEvents == 2
MaxText == 5
MaxChats == 2
MaxUsage == 2
MaxTokens == 1

(* --------------------------- program constants ------------------------ *)

SummaryDays == 7
AnnouncementLimit == 3
ModuleItemLimit == 10
FileLimit == 20
DiscussionLimit == 300
ToolItemLimit == 10

(* ------------------------------ outcomes ------------------------------ *)

\* A Python call either returns a value or raises an exception with a message.
Ok(v) == [raised |-> FALSE, value |-> v, exc |-> ""]
Raise(msg) == [raised |-> TRUE, value |-> <<>>, exc |-> msg]

NoValue == <<>>

RECURSIVE SeqToSet(_)
SeqToSet(s) == IF s = <<>> THEN {} ELSE {Head(s)} \cup SeqToSet(Tail(s))

Min(a, b) == IF a <= b THEN a ELSE b

(* ------------------------- the primitive request ---------------------- *)

\* An HTTP response: a status (0 stands for a transport-level failure: DNS,
\* connection refused, timeout) and, for a 200, the parsed JSON body.
FailStatuses == {401, 403, 404, 500, 0}
Failures == {[status |-> s, body |-> NoValue] : s \in FailStatuses}
Http200(b) == [status |-> 200, body |-> b]

\* _make_request but that it sends a POST with a body.
ReqPost(endpoint) == [method |-> "POST", endpoint |-> endpoint, has_body |-> TRUE]

\* What _make_request puts on the wire: method defaults to GET, data to None.
Req(endpoint) == [method |-> "GET", endpoint |-> endpoint, has_body |-> FALSE]

\* The statuses of the responses rs that answered the requests reqs: the
\* responses to the requests that were issued, in their order.
Answered(reqs, rs) == [k \in 1..Len(reqs) |-> rs[k].status]

\* _make_request but that every failed response is signalled as the generic
\* HTTP failure.
make_request_generic(endpoint, r) ==
    IF r.status = 200 THEN Ok(r.body)
    ELSE IF r.status = 0 THEN Raise("Request failed: connection error")
    ELSE Raise("HTTP " \o ToString(r.status) \o ": " \o ToString(r.status)
               \o " Error for url: /api/v1/" \o endpoint)

\* _make_request but that the generic HTTP failure leaves out the text of the
\* underlying error.
make_request_terse(endpoint, r) ==
    IF r.status = 200 THEN Ok(r.body)
    ELSE IF r.status = 401 THEN Raise("Unauthorized: Check your Canvas access token")
    ELSE IF r.status = 403 THEN Raise("Forbidden: Insufficient permissions")
    ELSE IF r.status = 404 THEN Raise("Not found: " \o endpoint)
    ELSE IF r.status = 0 THEN Raise("Request failed: connection error")
    ELSE Raise("HTTP " \o ToString(r.status) \o ": ")

make_request(endpoint, r) ==
    IF r.status = 200 THEN Ok(r.body)
    ELSE IF r.status = 401 THEN Raise("Unauthorized: Check your Canvas access token")
    ELSE IF r.status = 403 THEN Raise("Forbidden: Insufficient permissions")
    ELSE IF r.status = 404 THEN Raise("Not found: " \o endpoint)
    ELSE IF r.status = 0 THEN Raise("Request failed: connection error")
    ELSE Raise("HTTP " \o ToString(r.status) \o ": " \o ToString(r.status)
               \o " Server Error for url: /api/v1/" \o endpoint)

(* ------------------------------- dates -------------------------------- *)

\* Time is counted in days.  A due date as the API sends it is null, a string
\* that is not ISO-8601, an ISO string ending in Z (what Canvas sends), or an
\* ISO string without an offset.
NoneDate == [kind |-> "None", t |-> 0]
Malformed == [kind |-> "malformed", t |-> 0]
\* The empty string.
EmptyDate == [kind |-> "empty", t |-> 0]
IsoZ(t) == [kind |-> "isoZ", t |-> t]
IsoNaive(t) == [kind |-> "isoNaive", t |-> t]
\* What format_date can produce besides its argument.
NoDateText == [kind |-> "No date", t |-> 0]
Pretty(t) == [kind |-> "pretty", t |-> t]

RawDues(T, TN) == {NoneDate, Malformed} \cup {IsoZ(t) : t \in T} \cup {IsoNaive(t) : t \in TN}

\* datetime.fromisoformat(s.replace('Z', '+00:00')): an aware datetime for a
\* string with an offset, a naive one without, ValueError for anything else.
fromisoformat(s) ==
    IF s.kind = "isoZ" THEN [raised |-> FALSE, aware |-> TRUE, t |-> s.t]
    ELSE IF s.kind = "isoNaive" THEN [raised |-> FALSE, aware |-> FALSE, t |-> s.t]
    ELSE [raised |-> TRUE, aware |-> FALSE, t |-> 0]

\* format_date but that a string it cannot parse is shown as "No date".
format_date_strict(date_str) ==
    IF date_str.kind \in {"None", "empty"} THEN NoDateText
    ELSE IF fromisoformat(date_str).raised THEN NoDateText
    ELSE Pretty(fromisoformat(date_str).t)

\* if not date_str: None and the empty string are falsy.  The bare except
\* hands back the argument whatever the parse raised.
format_date(date_str) ==
    IF date_str.kind \in {"None", "empty"} THEN NoDateText
    ELSE IF fromisoformat(date_str).raised THEN date_str
    ELSE Pretty(fromisoformat(date_str).t)

\* Python truthiness of a due-date value: None and "" are falsy.
Truthy(s) == s.kind \notin {"None", "empty"}

\* now <= due <= future in Python: comparing an aware with a naive datetime
\* raises TypeError.
InWindowCmp(nowAware, now, due, future) ==
    IF due.aware # nowAware THEN [raised |-> TRUE, inside |-> FALSE]
    ELSE [raised |-> FALSE, inside |-> now <= due.t /\ due.t <= future]

\* The order of Python strings on the display texts.  Day 0 is October 30:
\* days 0 and 1 read "October 30", "October 31", day t >= 2 reads
\* "November <t-1>", and "No date" < "November ..." < "October ..." < any
\* lower-case malformed text; an ISO text starts with a digit and sorts first.
StrKey(s) ==
    IF s.kind = "No date" THEN 0
    ELSE IF s.kind = "pretty" THEN (IF s.t >= 2 THEN s.t - 1 ELSE 1000 + s.t)
    ELSE IF s.kind = "malformed" THEN 3000
    ELSE s.t - 1000

(* ------------------------------ courses ------------------------------- *)

\* JSON null, for a field whose values are otherwise strings.
Null == "<null>"
\* A key the JSON object does not carry.
Absent == "<absent>"

CourseName(i) == "Course " \o ToString(i)
CourseCode(i) == "CS" \o ToString(100 + i)

\* A course as the API sends it.  term is Absent, Null or the term's name;
\* enrollments is absent or a list of the computed_current_grade of each
\* enrollment record.
RawCourse(i, code, term, hasEnr, enr) ==
    [id |-> i, name |-> CourseName(i), course_code |-> code, term |-> term,
     has_enrollments |-> hasEnr, enrollments |-> enr]

PlainCourse(i) == RawCourse(i, CourseCode(i), "Fall", TRUE, <<"A">>)

\* The course lists the composite operations draw: courses 1..n, in order.
PlainCourseLists == {[k \in 1..n |-> PlainCourse(k)] : n \in 0..MaxCourses}
CoursesResponses == Failures \cup {Http200(b) : b \in PlainCourseLists}

\* A course whose enrollments list is empty: get_courses raises on it.
UnenrolledCourse == RawCourse(1, CourseCode(1), "Fall", TRUE, <<>>)

\* The course lists get_courses itself is exercised on: optional fields
\* absent, null or empty.
QuirkCourses(i) ==
    {RawCourse(i, code, term, e[1], e[2]) :
        code \in {CourseCode(i), Absent}, term \in {"Fall", Absent, Null},
        e \in {<<FALSE, <<>>>>, <<TRUE, <<>>>>, <<TRUE, <<"A">>>>, <<TRUE, <<Null>>>>}}
QuirkCourseLists ==
    UNION {{[k \in 1..n |-> f[k]] :
               f \in {g \in [1..n -> UNION {QuirkCourses(i) : i \in 1..n}] :
                         \A k \in 1..n : g[k].id = k}} : n \in 0..MaxCourses}

\* The exception the list comprehension of get_courses raises on one course,
\* "" if none: None.get for a null term, [][0] for an empty enrollments list.
CourseError(c) ==
    IF c.term = Null THEN "'NoneType' object has no attribute 'get'"
    ELSE IF c.has_enrollments /\ c.enrollments = <<>> THEN "list index out of range"
    ELSE ""

SimplifyCourse(c) ==
    [id |-> c.id,
     name |-> c.name,
     course_code |-> IF c.course_code = Absent THEN "" ELSE c.course_code,
     enrollment_term |-> IF c.term = Absent THEN "" ELSE c.term,
     current_grade |-> IF c.has_enrollments THEN c.enrollments[1] ELSE Null]

get_courses(r) ==
    LET m == make_request("courses", r) IN
    IF m.raised THEN m
    ELSE LET bad == {k \in 1..Len(m.value) : CourseError(m.value[k]) # ""} IN
         IF bad # {}
         THEN Raise(CourseError(m.value[CHOOSE k \in bad : \A j \in bad : k <= j]))
         ELSE Ok([k \in 1..Len(m.value) |-> SimplifyCourse(m.value[k])])

(* ----------------------------- assignments ---------------------------- *)

\* Assignment names are sequences of characters, so that "Quiz" in name is
\* the substring test the code makes.
NameHW == <<"H", "W">>
NameQuiz == <<"Q", "u", "i", "z">>
NameLowerQuiz == <<"q", "u", "i", "z">>

Contains(needle, hay) ==
    \E i \in 1..(Len(hay) - Len(needle) + 1) :
        SubSeq(hay, i, i + Len(needle) - 1) = needle

\* An assignment as the API sends it, with the fields the client reads.
RawAssignment(id, name, due, types, lti, hasSub, grade) ==
    [id |-> id, name |-> name, due_at |-> due, submission_types |-> types,
     is_quiz_lti_assignment |-> lti, has_submitted_submissions |-> hasSub,
     submission |-> [grade |-> grade, submitted_at |-> Null]]

\* The time the caller handed in, as the API sends it.
SubmittedAt == "2025-10-01T12:00:00Z"

\* An assignment by whether anyone in the course has handed in
\* (has_submitted_submissions) and when the caller did (submitted_at of the
\* caller's own submission, null if not).
SubmissionAssignment(id, anyone, submitted_at) ==
    [RawAssignment(id, NameHW, NoneDate, {"online_upload"}, FALSE, anyone, Null)
        EXCEPT !.submission.submitted_at = submitted_at]

SubmissionLists ==
    UNION {{[k \in 1..n |-> SubmissionAssignment(k, f[k][1], f[k][2])] :
               f \in [1..n -> BOOLEAN \X {Null, SubmittedAt}]} : n \in 0..MaxAssign}
SubmissionResponses == {Http200(b) : b \in SubmissionLists}

AssignmentsEndpoint(course_id) == "courses/" \o ToString(course_id) \o "/assignments"

NormalizeAssignment(a) ==
    [id |-> a.id,
     name |-> a.name,
     due_at |-> format_date(a.due_at),
     due_at_raw |-> a.due_at,
     submission_types |-> a.submission_types,
     submitted |-> a.has_submitted_submissions,
     grade |-> a.submission.grade,
     is_quiz |-> \/ "online_quiz" \in a.submission_types
                 \/ a.is_quiz_lti_assignment
                 \/ Contains(NameQuiz, a.name)]

get_assignments(course_id, r) ==
    LET m == make_request(AssignmentsEndpoint(course_id), r) IN
    IF m.raised THEN m
    ELSE Ok([k \in 1..Len(m.value) |-> NormalizeAssignment(m.value[k])])

\* Assignment lists that differ in their due dates only: ids 1..n in order.
DuedAssignment(k, due) == RawAssignment(k, NameHW, due, {"online_upload"}, FALSE, FALSE, Null)
DuedAssignmentLists(D) ==
    UNION {{[k \in 1..n |-> DuedAssignment(k, f[k])] : f \in [1..n -> D]} : n \in 0..MaxAssign}

\* The due dates worth drawing around a window [now, now + days].
EdgeTimes(now, days) == {now - 1, now, now + days, now + days + 1}

DuedResponses(D) == Failures \cup {Http200(b) : b \in DuedAssignmentLists(D)}


(* ------------------------------- grades ------------------------------- *)

EnrollmentsEndpoint(course_id) == "courses/" \o ToString(course_id) \o "/enrollments"

\* An enrollment as the API sends it: its grades object, or none.
RawEnrollment(hasGrades, grade, score) ==
    [has_grades |-> hasGrades,
     grades |-> [current_grade |-> grade, current_score |-> score,
                 final_grade |-> grade, final_score |-> score]]

EnrollmentLists ==
    {<<>>, <<RawEnrollment(TRUE, "A", "95")>>, <<RawEnrollment(FALSE, Null, Null)>>,
     <<RawEnrollment(TRUE, "B", "85"), RawEnrollment(TRUE, "A", "95")>>}
GradesResponses == Failures \cup {Http200(b) : b \in EnrollmentLists}

get_grades(course_id, r) ==
    LET m == make_request(EnrollmentsEndpoint(course_id), r) IN
    IF m.raised THEN m
    ELSE IF m.value = <<>> THEN Ok([error |-> "No enrollment found"])
    ELSE LET enrollment == m.value[1]
             \* enrollment.get("grades", {}).get(key)
             field(key) == IF enrollment.has_grades /\ key \in DOMAIN enrollment.grades
                           THEN enrollment.grades[key] ELSE Null
         IN Ok([current_score |-> field("current_score"),
                current_grade |-> field("current_grade"),
                final_score |-> field("final_score"),
                final_grade |-> field("final_grade"),
                unposted_current_score |-> field("unposted_current_score"),
                unposted_current_grade |-> field("unposted_current_grade")])

(* ---------------------------- announcements --------------------------- *)


ContextCode(k) == "course_" \o ToString(k)

\* context_code.replace("course_", ""): what is left of the code.
StripCoursePrefix(code) ==
    IF code = Absent THEN ""
    ELSE CHOOSE t \in {ToString(k) : k \in 0..(MaxCourses + 1)} : "course_" \o t = code

RawAnnouncement(id, k) ==
    [id |-> id, title |-> "Announcement " \o ToString(id), message |-> "<p>text</p>",
     posted_at |-> "posted", author |-> "Teacher", context_code |-> ContextCode(k)]

\* What the announcements endpoint can answer for the given context codes:
\* announcements of those courses only, newest first, ids 1..n.
AnnouncementLists(courses) ==
    UNION {{[j \in 1..n |-> RawAnnouncement(j, f[j])] :
               f \in [1..n -> {courses[k].id : k \in 1..Len(courses)}]} : n \in 0..MaxAnn}
AnnouncementsResponses(courses) ==
    Failures \cup {Http200(b) : b \in AnnouncementLists(courses)}

NormalizeAnnouncement(ann) ==
    [id |-> ann.id, title |-> ann.title, message |-> ann.message,
     posted_at |-> ann.posted_at, author |-> ann.author,
     course_id |-> StripCoursePrefix(ann.context_code)]

\* get_announcements(days) once its course list is known (c = the outcome of
\* get_courses): timedelta(days=days) raises TypeError for a str, before any
\* announcements request is issued; ra answers that request.
get_announcements(days_is_str, c, ra) ==
    IF c.raised THEN [res |-> c, reqs |-> <<Req("courses")>>]
    ELSE IF days_is_str
    THEN [res |-> Raise("unsupported type for timedelta days component: str"),
          reqs |-> <<Req("courses")>>]
    ELSE LET m == make_request("announcements", ra) IN
         [res |-> IF m.raised THEN m
                  ELSE Ok([j \in 1..Len(m.value) |-> NormalizeAnnouncement(m.value[j])]),
          reqs |-> <<Req("courses"), Req("announcements")>>]

(* ----------------------- get_upcoming_assignments --------------------- *)

\* The text the loop parses as the due date of a normalized assignment.
UpcomingDueText(assignment) == assignment.due_at

\* The loop without the parse and the window test: whatever has a due text is kept.
RECURSIVE UpcomingScanNoFilter(_, _, _, _, _, _)
UpcomingScanNoFilter(assignments, k, upcoming, course, now, future) ==
    IF k > Len(assignments) THEN upcoming
    ELSE UpcomingScanNoFilter(assignments, k + 1,
             IF Truthy(assignments[k].due_at)
             THEN Append(upcoming, assignments[k] @@ [course_name |-> course.name,
                                                      course_code |-> course.course_code])
             ELSE upcoming,
             course, now, future)

\* The inner for loop over one course's assignments, from the k-th on.  An
\* exception (ValueError of fromisoformat, TypeError of the comparison) leaves
\* the loop for the handler of the course, which keeps what was appended.
RECURSIVE UpcomingScan(_, _, _, _, _, _)
UpcomingScan(assignments, k, upcoming, course, now, future) ==
    IF k > Len(assignments) THEN upcoming
    ELSE LET assignment == assignments[k] IN
         IF ~Truthy(UpcomingDueText(assignment))
         THEN UpcomingScan(assignments, k + 1, upcoming, course, now, future)
         ELSE LET due_date == fromisoformat(UpcomingDueText(assignment)) IN
              IF due_date.raised THEN upcoming
              ELSE LET c == InWindowCmp(TRUE, now, due_date, future) IN
                   IF c.raised THEN upcoming
                   ELSE IF c.inside
                   THEN UpcomingScan(assignments, k + 1,
                            Append(upcoming,
                                   assignment @@ [course_name |-> course.name,
                                                  course_code |-> course.course_code]),
                            course, now, future)
                   ELSE UpcomingScan(assignments, k + 1, upcoming, course, now, future)

\* Whether an exception leaves the inner loop before its end.
UpcomingBreaks(assignments, now, future) ==
    \E k \in 1..Len(assignments) :
        /\ Truthy(UpcomingDueText(assignments[k]))
        /\ \/ fromisoformat(UpcomingDueText(assignments[k])).raised
           \/ InWindowCmp(TRUE, now, fromisoformat(UpcomingDueText(assignments[k])),
                          future).raised

\* The iteration with a handler that covers the date errors only: a failed
\* fetch propagates.
UpcomingCourseNoCatch(upcoming, course, r, now, future) ==
    LET a == get_assignments(course.id, r) IN
    IF a.raised
    THEN [raised |-> TRUE, exc |-> a.exc, upcoming |-> upcoming, printed |-> <<>>]
    ELSE [raised |-> FALSE, exc |-> "",
          upcoming |-> UpcomingScan(a.value, 1, upcoming, course, now, future),
          printed |-> IF UpcomingBreaks(a.value, now, future)
                      THEN <<"Error fetching assignments for " \o course.name
                             \o ": date error">>
                      ELSE <<>>]

\* One iteration of the loop over courses: a failed fetch is caught, a line
\* is printed and the course skipped.
UpcomingCourse(upcoming, course, r, now, future) ==
    LET a == get_assignments(course.id, r) IN
    IF a.raised
    THEN [raised |-> FALSE, exc |-> "", upcoming |-> upcoming,
          printed |-> <<"Error fetching assignments for " \o course.name \o ": " \o a.exc>>]
    ELSE [raised |-> FALSE, exc |-> "",
          upcoming |-> UpcomingScan(a.value, 1, upcoming, course, now, future),
          printed |-> IF UpcomingBreaks(a.value, now, future)
                      THEN <<"Error fetching assignments for " \o course.name
                             \o ": date error">>
                      ELSE <<>>]

\* list.sort(key = x["due_at"]): stable, ascending in the order of the texts.
RECURSIVE SortByDueAt(_)
SortByDueAt(s) ==
    IF s = <<>> THEN <<>>
    ELSE LET front == SortByDueAt(SubSeq(s, 1, Len(s) - 1))
             x == s[Len(s)]
             n == Cardinality({j \in 1..Len(front) : StrKey(front[j].due_at) <= StrKey(x.due_at)})
         IN SubSeq(front, 1, n) \o <<x>> \o SubSeq(front, n + 1, Len(front))

\* The loop has run over every course: sort and return.
UpcomingDone(upcoming) == Ok(SortByDueAt(upcoming))

\* get_upcoming_assignments from its first line to its first per-course
\* request: the course list is fetched outside any handler.
EnterUpcoming(days, now, r, opname, a, sofar, printed) ==
    LET c == get_courses(r) IN
    /\ op' = opname
    /\ args' = a
    /\ resp' = r
    /\ log' = Append(sofar, Req("courses"))
    /\ statuses' = Append(statuses, r.status)
    /\ out' = out \o printed
    /\ reply' = reply
    /\ IF c.raised
       THEN /\ pc' = "done"
            /\ ret' = Raise(c.exc)
            /\ loc' = NoValue
       ELSE IF c.value = <<>>
       THEN /\ pc' = "done"
            /\ ret' = UpcomingDone(<<>>)
            /\ loc' = [courses |-> c.value, i |-> 1, upcoming |-> <<>>,
                       now |-> now, future |-> now + days]
       ELSE /\ pc' = "upcoming_course"
            /\ ret' = NoValue
            /\ loc' = [courses |-> c.value, i |-> 1, upcoming |-> <<>>,
                       now |-> now, future |-> now + days]

Call_get_upcoming_assignments ==
    /\ pc = "idle"
    /\ \E days \in 1..MaxDays, now \in 1..MaxNow, r \in CoursesResponses :
          EnterUpcoming(days, now, r, "get_upcoming_assignments", [days |-> days], <<>>, <<>>)
    /\ UNCHANGED appvars

\* The request for the assignments of course i, and the rest of the iteration;
\* after the last course, the sort and the return.
UpcomingStep ==
    /\ pc = "upcoming_course"
    /\ \E r \in DuedResponses(RawDues(EdgeTimes(loc.now, loc.future - loc.now), {loc.now})) :
          LET course == loc.courses[loc.i]
              u == UpcomingCourse(loc.upcoming, course, r, loc.now, loc.future)
          IN /\ resp' = r
             /\ log' = Append(log, Req(AssignmentsEndpoint(course.id)))
             /\ statuses' = Append(statuses, r.status)
             /\ out' = out \o u.printed
             /\ reply' = reply
             /\ loc' = [loc EXCEPT !.i = loc.i + 1, !.upcoming = u.upcoming]
             /\ IF u.raised
                THEN pc' = "done" /\ ret' = Raise(u.exc)
                ELSE IF loc.i = Len(loc.courses)
                THEN pc' = "done" /\ ret' = UpcomingDone(u.upcoming)
                ELSE pc' = "upcoming_course" /\ ret' = NoValue
    /\ UNCHANGED <<op, args>>
    /\ UNCHANGED appvars


(* -------------------------- get_course_summary ------------------------ *)

\* str(c["id"]) == str(course_id): the course ids are numbers, the argument a
\* number or its decimal text; next(...) takes the first match.
FindCourse(courses, course_id) ==
    LET hits == {k \in 1..Len(courses) : ToString(courses[k].id) = ToString(course_id)} IN
    IF hits = {} THEN 0 ELSE CHOOSE k \in hits : \A j \in hits : k <= j

\* The handler around the whole of get_course_summary.
SummaryError(exc) == Ok([error |-> "Could not fetch course summary: " \o exc])

\* The loop over the course's assignments: an assignment whose date cannot be
\* parsed or compared is skipped (the inner handler continues).
RECURSIVE SummaryScan(_, _, _, _)
SummaryScan(assignments, k, kept, now) ==
    IF k > Len(assignments) THEN kept
    ELSE LET assignment == assignments[k]
             due_at_raw == assignment.due_at_raw
             due_date == fromisoformat(due_at_raw)
             \* datetime.now() is naive
             c == InWindowCmp(FALSE, now, due_date, now + SummaryDays)
         IN IF Truthy(due_at_raw) /\ ~due_date.raised /\ ~c.raised /\ c.inside
            THEN SummaryScan(assignments, k + 1, Append(kept, assignment), now)
            ELSE SummaryScan(assignments, k + 1, kept, now)

\* The upcoming-assignments section: a failed fetch leaves it empty.
SummaryUpcoming(course_id, r, now) ==
    LET a == get_assignments(course_id, r) IN
    IF a.raised THEN <<>> ELSE SummaryScan(a.value, 1, <<>>, now)

\* The announcements section: get_announcements is handed the course id as
\* its days argument; any exception leaves the section empty.
SummaryAnnouncements(id_is_str, c, ra) ==
    LET a == get_announcements(id_is_str, c, ra) IN
    [recent |-> IF a.res.raised THEN <<>>
                ELSE SubSeq(a.res.value, 1, Min(AnnouncementLimit, Len(a.res.value))),
     reqs |-> a.reqs]

\* From the call to the summary record with its grades: the course list and
\* the grades are fetched under the outer handler only.
Call_get_course_summary ==
    /\ pc = "idle"
    /\ \E course_id \in 1..(MaxCourses + 1), is_str \in BOOLEAN, now \in 1..MaxNow,
          r \in CoursesResponses, g \in GradesResponses :
          LET c == get_courses(r)
              k == FindCourse(c.value, course_id)
              grades == get_grades(course_id, g)
          IN /\ op' = "get_course_summary"
             /\ args' = [course_id |-> course_id, is_str |-> is_str]
             /\ out' = out
             /\ reply' = reply
             /\ IF c.raised
                THEN /\ pc' = "done" /\ ret' = SummaryError(c.exc) /\ loc' = NoValue
                     /\ resp' = [courses |-> r, grades |-> NoValue]
                     /\ log' = <<Req("courses")>>
                     /\ statuses' = <<r.status>>
                ELSE IF k = 0
                THEN /\ pc' = "done" /\ ret' = Ok([error |-> "Course not found"])
                     /\ loc' = NoValue
                     /\ resp' = [courses |-> r, grades |-> NoValue]
                     /\ log' = <<Req("courses")>>
                     /\ statuses' = <<r.status>>
                ELSE /\ resp' = [courses |-> r, grades |-> g]
                     /\ log' = <<Req("courses"), Req(EnrollmentsEndpoint(course_id))>>
                     /\ statuses' = <<r.status, g.status>>
                     /\ IF grades.raised
                        THEN pc' = "done" /\ ret' = SummaryError(grades.exc) /\ loc' = NoValue
                        ELSE /\ pc' = "summary_assignments"
                             /\ ret' = NoValue
                             /\ loc' = [now |-> now,
                                        summary |-> [course_name |-> c.value[k].name,
                                                     course_code |-> c.value[k].course_code,
                                                     grades |-> grades.value,
                                                     upcoming_assignments |-> <<>>,
                                                     recent_announcements |-> <<>>]]
    /\ UNCHANGED appvars

SummaryAssignmentsStep ==
    /\ pc = "summary_assignments"
    /\ \E r \in DuedResponses(RawDues(EdgeTimes(loc.now, SummaryDays),
                                      EdgeTimes(loc.now, SummaryDays))) :
          /\ resp' = r
          /\ log' = Append(log, Req(AssignmentsEndpoint(args.course_id)))
          /\ statuses' = Append(statuses, r.status)
          /\ loc' = [loc EXCEPT !.summary.upcoming_assignments =
                                    SummaryUpcoming(args.course_id, r, loc.now)]
    /\ pc' = "summary_announcements"
    /\ UNCHANGED <<op, args, ret, out, reply>>
    /\ UNCHANGED appvars

\* The announcements section and the return.  The course list is fetched
\* again; the announcements request is answered for the courses of that list.
SummaryAnnouncementsStep ==
    /\ pc = "summary_announcements"
    /\ \E r \in CoursesResponses :
          LET c == get_courses(r)
              answers == IF c.raised \/ args.is_str THEN {NoValue}
                         ELSE AnnouncementsResponses(c.value)
          IN \E ra \in answers :
                LET a == SummaryAnnouncements(args.is_str, c, ra) IN
                /\ resp' = [courses |-> r, announcements |-> ra]
                /\ log' = log \o a.reqs
                /\ statuses' = statuses \o Answered(a.reqs, <<r, ra>>)
                /\ loc' = [loc EXCEPT !.summary.recent_announcements = a.recent]
                /\ ret' = Ok([loc.summary EXCEPT !.recent_announcements = a.recent])
    /\ pc' = "done"
    /\ UNCHANGED <<op, args, out, reply>>
    /\ UNCHANGED appvars


(* ------------------------- files and modules -------------------------- *)

FilesEndpoint(course_id) == "courses/" \o ToString(course_id) \o "/files"
ModulesEndpoint(course_id) == "courses/" \o ToString(course_id) \o "/modules"

\* A record as it is but without one of its fields.
Without(record, field) == [f \in DOMAIN record \ {field} |-> record[f]]

RawFile(j) ==
    [id |-> j, display_name |-> "file" \o ToString(j), filename |-> "file" \o ToString(j),
     size |-> 100 + j, url |-> "files/" \o ToString(j)]

\* File lists of 0..MaxFiles files, and one longer than the synthetic module
\* takes; each non-empty one also with its last file lacking the id.
FileLists ==
    LET whole == {[j \in 1..n |-> RawFile(j)] : n \in (0..MaxFiles) \cup {FileLimit + 1}}
    IN whole \cup {[b EXCEPT ![Len(b)] = Without(b[Len(b)], "id")] : b \in whole \ {<<>>}}
FilesResponses == Failures \cup {Http200(b) : b \in FileLists}

\* get_course_files: file["id"] raises KeyError for a file without id; the
\* other fields are read with defaults.
get_course_files(course_id, r) ==
    LET m == make_request(FilesEndpoint(course_id), r) IN
    IF m.raised THEN m
    ELSE IF \E j \in 1..Len(m.value) : "id" \notin DOMAIN m.value[j] THEN Raise("'id'")
    ELSE Ok([j \in 1..Len(m.value) |->
                [id |-> m.value[j].id,
                 display_name |-> m.value[j].display_name,
                 filename |-> m.value[j].filename,
                 size |-> m.value[j].size,
                 url |-> m.value[j].url]])

RawItem(j) == [id |-> j, title |-> "item" \o ToString(j), type |-> "Page", indent |-> 0]

\* A module with n items; it may lack its name, or its last item the title.
RawModule(id, n, defect) ==
    LET items == [j \in 1..n |-> RawItem(j)]
        whole == [id |-> id, name |-> "Module " \o ToString(id), position |-> id,
                  published |-> TRUE, items_count |-> n, items |-> items]
    IN IF defect = "name" THEN Without(whole, "name")
       ELSE IF defect = "item_title" /\ n > 0
       THEN [whole EXCEPT !.items[n] = Without(items[n], "title")]
       ELSE whole

\* Module lists of 0..MaxModules modules, ids 1..n in order, each with no
\* item, one item, or more items than the client keeps.
ItemCounts == {0, 1, ModuleItemLimit + 1}
Defects == {"none", "name", "item_title"}
ModuleLists ==
    UNION {{[k \in 1..n |-> RawModule(k, f[k][1], f[k][2])] :
               f \in [1..n -> ItemCounts \X Defects]} : n \in 0..MaxModules}
ModulesResponses == Failures \cup {Http200(b) : b \in ModuleLists}

\* _get_files_as_modules but that it has no handler: a failure of the files
\* fetch leaves it as the exception.
get_files_as_modules_raising(course_id, rf) ==
    LET files == get_course_files(course_id, rf) IN
    IF files.raised THEN files
    ELSE IF files.value = <<>>
    THEN Ok(<<[message |-> "No modules or files found for this course"]>>)
    ELSE Ok(<<[id |-> "files", name |-> "Course Files", position |-> 1,
               state |-> "active", published |-> TRUE,
               items_count |-> Min(FileLimit, Len(files.value)), items |-> <<>>,
               is_files_fallback |-> TRUE]>>)

\* _get_files_as_modules: one synthetic module of up to FileLimit files, a
\* message when there are no files, an error record when the fetch fails.
get_files_as_modules(course_id, rf) ==
    LET files == get_course_files(course_id, rf) IN
    IF files.raised
    THEN Ok(<<[error |-> "Could not fetch modules or files: " \o files.exc]>>)
    ELSE IF files.value = <<>>
    THEN Ok(<<[message |-> "No modules or files found for this course"]>>)
    ELSE LET n == Min(FileLimit, Len(files.value))
             file_items == [j \in 1..n |->
                               [id |-> files.value[j].id,
                                title |-> files.value[j].display_name,
                                type |-> "File",
                                size |-> files.value[j].size,
                                url |-> files.value[j].url]]
         IN Ok(<<[id |-> "files", name |-> "Course Files", position |-> 1,
                  state |-> "active", published |-> TRUE,
                  items_count |-> Len(file_items), items |-> file_items,
                  is_files_fallback |-> TRUE]>>)

\* The fields the comprehension reads with [] and not with .get: the id and
\* the name of the module, and the id, title and type of its first
\* ModuleItemLimit items.
ModuleReadable(module) ==
    /\ {"id", "name"} \subseteq DOMAIN module
    /\ \A j \in 1..Min(ModuleItemLimit, Len(module.items)) :
          {"id", "title", "type"} \subseteq DOMAIN module.items[j]

NormalizeModule(module) ==
    [id |-> module.id,
     name |-> module.name,
     position |-> module.position,
     unlock_at |-> Null,
     state |-> "",
     published |-> module.published,
     items_count |-> module.items_count,
     items |-> [j \in 1..Min(ModuleItemLimit, Len(module.items)) |->
                   [id |-> module.items[j].id, title |-> module.items[j].title,
                    type |-> module.items[j].type, indent |-> module.items[j].indent]]]

\* The list comprehension over the raw modules but that modules without items
\* are left out.
NormalizeModulesNonEmpty(modules) ==
    LET keep == {k \in 1..Len(modules) : modules[k].items # <<>>}
        nth(i) == CHOOSE k \in keep : Cardinality({j \in keep : j < k}) = i - 1
    IN IF \E k \in 1..Len(modules) : ~ModuleReadable(modules[k]) THEN Raise("KeyError")
       ELSE Ok([i \in 1..Cardinality(keep) |-> NormalizeModule(modules[nth(i)])])

\* The list comprehension over the raw modules: KeyError when a field read
\* with [] is not there.
NormalizeModules(modules) ==
    IF \E k \in 1..Len(modules) : ~ModuleReadable(modules[k]) THEN Raise("KeyError")
    ELSE Ok([k \in 1..Len(modules) |-> NormalizeModule(modules[k])])

\* The try block of get_modules neither raises nor finds the list empty.
ModulesUsable(m) == ~m.raised /\ m.value # <<>> /\ ~NormalizeModules(m.value).raised

\* get_modules but that its handler reports the failure of the modules
\* request instead of trying the files.
get_modules_reporting(course_id, rm, rf) ==
    LET m == make_request(ModulesEndpoint(course_id), rm) IN
    IF m.raised
    THEN [res |-> Ok(<<[error |-> "Could not fetch modules: " \o m.exc]>>),
          reqs |-> <<Req(ModulesEndpoint(course_id))>>]
    ELSE IF ~ModulesUsable(m)
    THEN [res |-> get_files_as_modules(course_id, rf),
          reqs |-> <<Req(ModulesEndpoint(course_id)), Req(FilesEndpoint(course_id))>>]
    ELSE [res |-> NormalizeModules(m.value),
          reqs |-> <<Req(ModulesEndpoint(course_id))>>]

\* get_modules but that after a failure it asks for the modules once more.
get_modules_retrying(course_id, rm, rf) ==
    LET m == make_request(ModulesEndpoint(course_id), rm) IN
    IF ~ModulesUsable(m)
    THEN [res |-> NormalizeModules(make_request(ModulesEndpoint(course_id), rf).value),
          reqs |-> <<Req(ModulesEndpoint(course_id)), Req(ModulesEndpoint(course_id))>>]
    ELSE [res |-> NormalizeModules(m.value),
          reqs |-> <<Req(ModulesEndpoint(course_id))>>]

\* get_modules: rm answers the modules request, rf the files request if one
\* is made.  An empty list and an exception both lead to the files.
get_modules(course_id, rm, rf) ==
    LET m == make_request(ModulesEndpoint(course_id), rm) IN
    IF ~ModulesUsable(m)
    THEN [res |-> get_files_as_modules(course_id, rf),
          reqs |-> <<Req(ModulesEndpoint(course_id)), Req(FilesEndpoint(course_id))>>]
    ELSE [res |-> NormalizeModules(m.value),
          reqs |-> <<Req(ModulesEndpoint(course_id))>>]

Call_get_modules ==
    /\ pc = "idle"
    /\ \E course_id \in 1..MaxCourses, rm \in ModulesResponses :
          LET needsFiles == ~ModulesUsable(make_request(ModulesEndpoint(course_id), rm)) IN
          \E rf \in (IF needsFiles THEN FilesResponses ELSE {NoValue}) :
             LET g == get_modules(course_id, rm, rf) IN
             /\ args' = [course_id |-> course_id]
             /\ resp' = [modules |-> rm, files |-> rf]
             /\ ret' = g.res
             /\ log' = g.reqs
             /\ statuses' = Answered(g.reqs, <<rm, rf>>)
    /\ op' = "get_modules"
    /\ pc' = "done"
    /\ loc' = NoValue
    /\ out' = out
    /\ reply' = reply
    /\ UNCHANGED appvars


(* ----------------------------- discussions ---------------------------- *)

DiscussionsEndpoint(course_id) == "courses/" \o ToString(course_id) \o "/discussion_topics"

\* Texts are sequences of characters.  re.sub(r'<[^>]+>', '', text) deletes
\* the characters that lie within a match: a "<", one or more characters other
\* than ">", and the next ">".  (The recursion halves the range, so that a
\* text longer than the limit does not need a deep stack.)
InTag(t, p) ==
    \E s \in 1..p :
        /\ t[s] = "<"
        /\ \E c \in p..Len(t) :
              /\ t[c] = ">"
              /\ c >= s + 2
              /\ \A j \in (s + 1)..(c - 1) : t[j] # ">"

RECURSIVE RemoveTags(_, _, _)
RemoveTags(t, lo, hi) ==
    IF lo > hi THEN <<>>
    ELSE IF lo = hi THEN (IF InTag(t, lo) THEN <<>> ELSE <<t[lo]>>)
    ELSE RemoveTags(t, lo, (lo + hi) \div 2) \o RemoveTags(t, (lo + hi) \div 2 + 1, hi)

\* ' '.join(text.split()): of each run of blanks the first one stays, unless
\* the run starts or ends the text.
BlankDropped(t, p) ==
    /\ t[p] = " "
    /\ \/ p = 1
       \/ t[p - 1] = " "
       \/ \A q \in (p + 1)..Len(t) : t[q] = " "

RECURSIVE CollapseSpaces(_, _, _)
CollapseSpaces(t, lo, hi) ==
    IF lo > hi THEN <<>>
    ELSE IF lo = hi THEN (IF BlankDropped(t, lo) THEN <<>> ELSE <<t[lo]>>)
    ELSE CollapseSpaces(t, lo, (lo + hi) \div 2)
             \o CollapseSpaces(t, (lo + hi) \div 2 + 1, hi)

\* A message body: absent, null or a text.
Msg(kind, text) == [kind |-> kind, text |-> text]

\* strip_html but that the text is not cut.
strip_html_uncut(msg) ==
    IF msg.kind # "text" \/ msg.text = <<>> THEN <<>>
    ELSE LET untagged == RemoveTags(msg.text, 1, Len(msg.text))
         IN CollapseSpaces(untagged, 1, Len(untagged))

strip_html(msg) ==
    IF msg.kind # "text" \/ msg.text = <<>> THEN <<>>
    ELSE LET untagged == RemoveTags(msg.text, 1, Len(msg.text))
             text == CollapseSpaces(untagged, 1, Len(untagged))
         IN
         IF Len(text) > DiscussionLimit
         THEN SubSeq(text, 1, DiscussionLimit) \o <<".", ".", ".">>
         ELSE text

\* A text of n times the letter a.
Letters(n) == [i \in 1..n |-> "a"]

\* Message bodies that come together in one answer: none, null, markup with
\* blanks, and texts around the length limit, with and without markup.
Messages ==
    {Msg("absent", <<>>), Msg("null", <<>>),
     Msg("text", <<"<", "p", ">", "h", "i", " ", " ", "<", "/", "p", ">">>),
     Msg("text", <<"a", "<", ">", "b">>),
     Msg("text", Letters(DiscussionLimit)),
     Msg("text", Letters(DiscussionLimit + 1)),
     Msg("text", Letters(DiscussionLimit - 1) \o <<"<", "b", ">", " ", "<">> \o Letters(2))}

\* Every text of up to MaxText characters over angle brackets, a letter and
\* the blank.
ShortTexts == UNION {[1..n -> {"<", ">", "a", " "}] : n \in 0..MaxText}

RawDiscussion(id, msg) ==
    [id |-> id, title |-> "Topic " \o ToString(id), message |-> msg, posted_at |-> "posted",
     author |-> "Teacher", unread_count |-> 0, discussion_subentry_count |-> 0]

\* Lists of 0..MaxDiscussions topics over Messages, and one topic with each
\* short text.
DiscussionLists ==
    UNION {{[k \in 1..n |-> RawDiscussion(k, f[k])] : f \in [1..n -> Messages]} :
              n \in 0..MaxDiscussions}
        \cup {<<RawDiscussion(1, Msg("text", t))>> : t \in ShortTexts}
DiscussionsResponses == Failures \cup {Http200(b) : b \in DiscussionLists}

get_discussions(course_id, r) ==
    LET m == make_request(DiscussionsEndpoint(course_id), r) IN
    IF m.raised THEN Ok(<<[error |-> "Could not fetch discussions: " \o m.exc]>>)
    ELSE IF m.value = <<>> THEN Ok(<<[message |-> "No discussions found for this course"]>>)
    ELSE Ok([k \in 1..Len(m.value) |->
                [id |-> m.value[k].id,
                 title |-> m.value[k].title,
                 message |-> strip_html(m.value[k].message),
                 posted_at |-> m.value[k].posted_at,
                 author |-> m.value[k].author,
                 unread_count |-> m.value[k].unread_count,
                 reply_count |-> m.value[k].discussion_subentry_count]])

(* ------------------------------ calendar ------------------------------ *)

RawEvent(id) ==
    [id |-> id, title |-> "Event " \o ToString(id), start_at |-> "start", end_at |-> "end",
     context_name |-> "Course", type |-> "assignment"]
EventLists == {[k \in 1..n |-> RawEvent(k)] : n \in 0..MaxEvents}
CalendarResponses == Failures \cup {Http200(b) : b \in EventLists}

NormalizeEvent(event) ==
    [id |-> event.id, title |-> event.title, description |-> "",
     start_at |-> event.start_at, end_at |-> event.end_at, location_name |-> "",
     context_name |-> event.context_name, type |-> event.type]

(* --------------------------- grades of all courses -------------------- *)

\* The body of the loop of get_all_grades but that a course whose grades
\* cannot be fetched gets an error entry.
AllGradesEntryReporting(course, g) ==
    LET grades == get_grades(ToString(course.id), g) IN
    IF grades.raised THEN <<[error |-> "Could not fetch grades: " \o grades.exc]>>
    ELSE <<[course_id |-> ToString(course.id), course_name |-> course.name,
            course_code |-> course.course_code, grades |-> grades.value]>>

\* The body of the loop of get_all_grades: the entry of one course, nothing
\* when its grades cannot be fetched.
AllGradesEntry(course, g) ==
    LET grades == get_grades(ToString(course.id), g) IN
    IF grades.raised THEN <<>>
    ELSE <<[course_id |-> ToString(course.id), course_name |-> course.name,
            course_code |-> course.course_code, grades |-> grades.value]>>

\* The loop of get_all_grades but that it ends at the first course whose
\* grades cannot be fetched.
RECURSIVE AllGradesLoopStopping(_, _, _)
AllGradesLoopStopping(courses, gs, k) ==
    IF k > Len(courses) \/ AllGradesEntry(courses[k], gs[k]) = <<>> THEN <<>>
    ELSE AllGradesEntry(courses[k], gs[k]) \o AllGradesLoopStopping(courses, gs, k + 1)

RECURSIVE AllGradesLoop(_, _, _)
AllGradesLoop(courses, gs, k) ==
    IF k > Len(courses) THEN <<>>
    ELSE AllGradesEntry(courses[k], gs[k]) \o AllGradesLoop(courses, gs, k + 1)

\* get_all_grades: c is the outcome of get_courses, gs[k] answers the
\* enrollments request of the k-th course.
get_all_grades(c, gs) ==
    IF c.raised THEN Ok(<<[error |-> "Could not fetch grades: " \o c.exc]>>)
    ELSE Ok(AllGradesLoop(c.value, gs, 1))

(* ------------------------------- quizzes ------------------------------ *)

\* Assignment lists that differ in what makes an assignment a quiz.
QuizzyAssignments(k) ==
    {RawAssignment(k, name, NoneDate, types, lti, FALSE, Null) :
        name \in {NameHW, NameQuiz, NameLowerQuiz},
        types \in {{"online_upload"}, {"online_quiz"}}, lti \in BOOLEAN}

QuizzyLists ==
    UNION {{[k \in 1..n |-> f[k]] :
               f \in {g \in [1..n -> UNION {QuizzyAssignments(k) : k \in 1..n}] :
                         \A k \in 1..n : g[k].id = k}} : n \in 0..MaxAssign}
QuizzyResponses == Failures \cup {Http200(b) : b \in QuizzyLists}

\* [a for a in assignments if a.get("is_quiz", False)]
RECURSIVE OnlyQuizzes(_)
OnlyQuizzes(assignments) ==
    IF assignments = <<>> THEN <<>>
    ELSE (IF Head(assignments).is_quiz THEN <<Head(assignments)>> ELSE <<>>)
             \o OnlyQuizzes(Tail(assignments))

get_quizzes(course_id, r) ==
    LET a == get_assignments(course_id, r) IN
    IF a.raised THEN Ok(<<[error |-> "Could not fetch quizzes: " \o a.exc]>>)
    ELSE IF OnlyQuizzes(a.value) = <<>>
    THEN Ok(<<[message |-> "No quizzes found for this course"]>>)
    ELSE Ok(OnlyQuizzes(a.value))

\* The filter of get_quiz_submissions but that it lets every record through.
WithMessage(quizzes) == quizzes

\* [q for q in quizzes if not isinstance(q, dict) or "message" not in q]
RECURSIVE WithoutMessage(_)
WithoutMessage(quizzes) ==
    IF quizzes = <<>> THEN <<>>
    ELSE (IF "message" \in DOMAIN Head(quizzes) THEN <<>> ELSE <<Head(quizzes)>>)
             \o WithoutMessage(Tail(quizzes))

\* get_quizzes never raises, so the handler of get_quiz_submissions never runs.
get_quiz_submissions(course_id, r) == Ok(WithoutMessage(get_quizzes(course_id, r).value))

(* --------------------- operations of one or two requests -------------- *)

\* An operation that is over within one step; rs are the responses that
\* answered its requests, in the order of the requests.
FinishAll(opname, a, r, outcome, reqs, rs) ==
    /\ op' = opname
    /\ args' = a
    /\ resp' = r
    /\ ret' = outcome
    /\ log' = reqs
    /\ statuses' = Answered(reqs, rs)
    /\ pc' = "done"
    /\ loc' = NoValue
    /\ out' = out
    /\ reply' = reply

\* An operation of one request that is over within one step.
Finish(opname, a, r, outcome, reqs) == FinishAll(opname, a, r, outcome, reqs, <<r>>)

Call_get_courses ==
    /\ pc = "idle"
    /\ \E r \in Failures \cup {Http200(b) : b \in QuirkCourseLists} :
          Finish("get_courses", NoValue, r, get_courses(r), <<Req("courses")>>)
    /\ UNCHANGED appvars

Call_get_assignments ==
    /\ pc = "idle"
    /\ \E course_id \in 1..MaxCourses,
          r \in QuizzyResponses \cup SubmissionResponses
                   \cup DuedResponses(RawDues(0..MaxDays, 0..MaxDays) \cup {EmptyDate}) :
          Finish("get_assignments", [course_id |-> course_id], r,
                 get_assignments(course_id, r), <<Req(AssignmentsEndpoint(course_id))>>)
    /\ UNCHANGED appvars

Call_get_grades ==
    /\ pc = "idle"
    /\ \E course_id \in 1..MaxCourses, r \in GradesResponses :
          Finish("get_grades", [course_id |-> course_id], r,
                 get_grades(course_id, r), <<Req(EnrollmentsEndpoint(course_id))>>)
    /\ UNCHANGED appvars

Call_get_all_grades ==
    /\ pc = "idle"
    /\ \E r \in CoursesResponses \cup {Http200(<<UnenrolledCourse>>)} :
          LET c == get_courses(r)
              n == IF c.raised THEN 0 ELSE Len(c.value)
          IN \E gs \in [1..n -> GradesResponses] :
                FinishAll("get_all_grades", NoValue, [courses |-> r, grades |-> gs],
                          get_all_grades(c, gs),
                          <<Req("courses")>>
                              \o [k \in 1..n |-> Req(EnrollmentsEndpoint(c.value[k].id))],
                          <<r>> \o gs)
    /\ UNCHANGED appvars

Call_get_announcements ==
    /\ pc = "idle"
    /\ \E days \in 1..MaxDays, r \in CoursesResponses :
          LET c == get_courses(r) IN
          \E ra \in (IF c.raised THEN {NoValue} ELSE AnnouncementsResponses(c.value)) :
             LET a == get_announcements(FALSE, c, ra) IN
             FinishAll("get_announcements", [days |-> days],
                       [courses |-> r, announcements |-> ra], a.res, a.reqs, <<r, ra>>)
    /\ UNCHANGED appvars

Call_get_discussions ==
    /\ pc = "idle"
    /\ \E course_id \in 1..MaxCourses, r \in DiscussionsResponses :
          Finish("get_discussions", [course_id |-> course_id], r,
                 get_discussions(course_id, r), <<Req(DiscussionsEndpoint(course_id))>>)
    /\ UNCHANGED appvars

Call_get_course_files ==
    /\ pc = "idle"
    /\ \E course_id \in 1..MaxCourses, r \in FilesResponses :
          Finish("get_course_files", [course_id |-> course_id], r,
                 get_course_files(course_id, r), <<Req(FilesEndpoint(course_id))>>)
    /\ UNCHANGED appvars

Call_get_quizzes ==
    /\ pc = "idle"
    /\ \E course_id \in 1..MaxCourses, r \in QuizzyResponses :
          Finish("get_quizzes", [course_id |-> course_id], r,
                 get_quizzes(course_id, r), <<Req(AssignmentsEndpoint(course_id))>>)
    /\ UNCHANGED appvars

Call_get_quiz_submissions ==
    /\ pc = "idle"
    /\ \E course_id \in 1..MaxCourses, r \in QuizzyResponses :
          Finish("get_quiz_submissions", [course_id |-> course_id], r,
                 get_quiz_submissions(course_id, r), <<Req(AssignmentsEndpoint(course_id))>>)
    /\ UNCHANGED appvars

\* get_calendar_events up to its calendar request.
Call_get_calendar_events ==
    /\ pc = "idle"
    /\ \E days_ahead \in 1..MaxDays, now \in 1..MaxNow, rc \in CalendarResponses :
          /\ op' = "get_calendar_events"
          /\ args' = [days_ahead |-> days_ahead]
          /\ loc' = [now |-> now]
          /\ resp' = rc
          /\ log' = <<Req("calendar_events")>>
          /\ statuses' = <<rc.status>>
    /\ pc' = "calendar"
    /\ UNCHANGED <<ret, out, reply>>
    /\ UNCHANGED appvars

\* The handler of get_calendar_events but that it reports the failure.
CalendarFailedReporting(exc) ==
    /\ pc' = "done"
    /\ ret' = Ok(<<[error |-> "Could not fetch calendar events: " \o exc]>>)
    /\ UNCHANGED <<op, args, loc, resp, log, statuses, out, reply>>

\* The handler of get_calendar_events: a line is printed and
\* get_upcoming_assignments(days_ahead) runs in its place.
CalendarFailed(exc) ==
    \E r \in CoursesResponses :
        EnterUpcoming(args.days_ahead, loc.now, r, op, args, log,
                      <<"Calendar API failed, using assignments: " \o exc>>)

\* get_calendar_events after its calendar request: the events of the answer,
\* or the fallback when the request failed.
CalendarStep ==
    /\ pc = "calendar"
    /\ LET m == make_request("calendar_events", resp) IN
       IF m.raised
       THEN CalendarFailed(m.exc)
       ELSE /\ pc' = "done"
            /\ ret' = Ok([k \in 1..Len(m.value) |-> NormalizeEvent(m.value[k])])
            /\ UNCHANGED <<op, args, loc, resp, log, statuses, out, reply>>
    /\ UNCHANGED appvars

(* ------------------------------ MCP tools ----------------------------- *)

\* The client methods that an MCP tool of the same name calls with the
\* tool's own arguments.
Tools ==
    {"get_courses", "get_assignments", "get_upcoming_assignments", "get_grades",
     "get_announcements", "get_discussions", "get_course_files",
     "get_calendar_events", "get_modules", "get_quizzes", "get_quiz_submissions"}

\* dict.get(field, default)
Get(record, field, default) == IF field \in DOMAIN record THEN record[field] ELSE default

\* The loop body of the get_modules tool: the name, the item count and the
\* title and type of the first ToolItemLimit items, whatever the record is.
CleanModule(module) ==
    LET items == Get(module, "items", <<>>) IN
    [name |-> Get(module, "name", ""),
     items_count |-> Get(module, "items_count", 0),
     items |-> [j \in 1..Min(ToolItemLimit, Len(items)) |->
                   [title |-> Get(items[j], "title", ""),
                    type |-> Get(items[j], "type", "")]]]

\* What the tool of a client method hands on: the method's outcome, but for
\* get_modules the cleaned list.  An exception of the method leaves the tool.
ToolOutcome(opname, outcome) ==
    IF outcome.raised THEN outcome
    ELSE IF opname = "get_modules"
    THEN Ok([k \in 1..Len(outcome.value) |-> CleanModule(outcome.value[k])])
    ELSE outcome

\* The tool of the finished client method returns to the orchestrator.
ToolReturn ==
    /\ pc = "done"
    /\ op \in Tools
    /\ reply' = ToolOutcome(op, ret)
    /\ pc' = "replied"
    /\ UNCHANGED <<op, args, loc, resp, ret, log, statuses, out>>
    /\ UNCHANGED appvars

(* ------------------ the tool get_assignment_submission ---------------- *)

\* str.lower() on the letters of the names and queries at hand.
LowerChar(ch) ==
    IF ch = "H" THEN "h" ELSE IF ch = "W" THEN "w" ELSE IF ch = "Q" THEN "q"
    ELSE IF ch = "U" THEN "u" ELSE IF ch = "I" THEN "i" ELSE IF ch = "Z" THEN "z"
    ELSE ch
Lower(text) == [i \in 1..Len(text) |-> LowerChar(text[i])]

\* The names a caller asks for: "quiz", "QUIZ", "hw", "z", "x" and "".
Queries ==
    {<<"q", "u", "i", "z">>, <<"Q", "U", "I", "Z">>, <<"h", "w">>, <<"z">>, <<"x">>, <<>>}

\* Assignment lists that differ in the names only: ids 1..n in order.
NamedLists ==
    UNION {{[k \in 1..n |-> RawAssignment(k, f[k], NoneDate, {"online_upload"},
                                          FALSE, FALSE, Null)] :
               f \in [1..n -> {NameHW, NameQuiz, NameLowerQuiz}]} : n \in 0..MaxAssign}
NamedResponses == Failures \cup {Http200(b) : b \in NamedLists}

SubmissionEndpoint(course_id, assignment_id) ==
    "courses/" \o ToString(course_id) \o "/assignments/" \o ToString(assignment_id)
        \o "/submissions/self"

\* The caller's submission as the API sends it.
RawSubmission == [id |-> 7, assignment_id |-> 1, submitted_at |-> SubmittedAt,
                  score |-> 9, grade |-> "9", attempt |-> 1]
SubmissionAnswers == Failures \cup {Http200(RawSubmission)}

\* get_assignment_submissions: the submission, or an error record.
get_assignment_submissions(course_id, assignment_id, r) ==
    LET m == make_request(SubmissionEndpoint(course_id, assignment_id), r) IN
    IF m.raised THEN Ok([error |-> "Could not fetch submission: " \o m.exc])
    ELSE Ok([id |-> m.value.id, assignment_id |-> m.value.assignment_id,
             submitted_at |-> m.value.submitted_at, score |-> m.value.score,
             grade |-> m.value.grade, attempt |-> m.value.attempt,
             workflow_state |-> "", late |-> FALSE, missing |-> FALSE,
             excused |-> FALSE, submission_comments |-> <<>>])

\* The loop of the tool but that the names are compared as they are.
RECURSIVE FirstMatchExact(_, _, _)
FirstMatchExact(assignments, assignment_name, k) ==
    IF k > Len(assignments) THEN 0
    ELSE IF Contains(assignment_name, assignments[k].name) THEN k
    ELSE FirstMatchExact(assignments, assignment_name, k + 1)

\* The loop of the tool: the position of the first assignment whose name in
\* lower case contains the given name in lower case, 0 if there is none.
RECURSIVE FirstMatch(_, _, _)
FirstMatch(assignments, assignment_name, k) ==
    IF k > Len(assignments) THEN 0
    ELSE IF Contains(Lower(assignment_name), Lower(assignments[k].name)) THEN k
    ELSE FirstMatch(assignments, assignment_name, k + 1)

\* The tool get_assignment_submission: ra answers the assignments request,
\* rs the submission request if one is made.
get_assignment_submission(course_id, assignment_name, ra, rs) ==
    LET assignments == get_assignments(course_id, ra)
        k == FirstMatch(assignments.value, assignment_name, 1)
    IN IF assignments.raised
       THEN [res |-> assignments, reqs |-> <<Req(AssignmentsEndpoint(course_id))>>]
       ELSE IF k = 0
       THEN [res |-> Ok([error |-> <<"Assignment '", assignment_name,
                                     "' not found in course">>]),
             reqs |-> <<Req(AssignmentsEndpoint(course_id))>>]
       ELSE [res |-> get_assignment_submissions(course_id, assignments.value[k].id, rs),
             reqs |-> <<Req(AssignmentsEndpoint(course_id)),
                        Req(SubmissionEndpoint(course_id, assignments.value[k].id))>>]

Tool_get_assignment_submission ==
    /\ pc = "idle"
    /\ \E course_id \in 1..MaxCourses, assignment_name \in Queries, ra \in NamedResponses :
          LET a == get_assignments(course_id, ra)
              found == ~a.raised /\ FirstMatch(a.value, assignment_name, 1) # 0
          IN \E rs \in (IF found THEN SubmissionAnswers ELSE {NoValue}) :
                LET g == get_assignment_submission(course_id, assignment_name, ra, rs) IN
                /\ args' = [course_id |-> course_id, assignment_name |-> assignment_name]
                /\ resp' = [assignments |-> ra, submission |-> rs]
                /\ ret' = g.res
                /\ reply' = g.res
                /\ log' = g.reqs
                /\ statuses' = Answered(g.reqs, <<ra, rs>>)
    /\ op' = "get_assignment_submission"
    /\ pc' = "replied"
    /\ loc' = NoValue
    /\ out' = out
    /\ UNCHANGED appvars

(* --------------------- CanvasClient as the tests use it --------------- *)

\* The methods the class CanvasClient defines.
Methods ==
    {"_make_request", "get_courses", "get_assignments", "get_upcoming_assignments",
     "get_grades", "get_all_grades", "get_course_summary", "get_announcements",
     "get_discussions", "get_course_files", "get_calendar_events", "get_modules",
     "_get_files_as_modules", "get_quizzes", "get_assignment_submissions",
     "get_quiz_submissions"}

\* CanvasClient() without arguments: the URL and the token come from the
\* environment.  Without a URL, None.rstrip fails before the test of line 44.
Construct(has_url, has_token) ==
    IF ~has_url THEN Raise("AttributeError: 'NoneType' object has no attribute 'rstrip'")
    ELSE IF ~has_token THEN Raise("ValueError: Canvas URL and access token are required")
    ELSE Ok("CanvasClient")

\* client.<name>: the bound method, or the AttributeError of a name the
\* class does not define.
Attribute(name) ==
    IF name \in Methods THEN Ok(name)
    ELSE Raise("AttributeError: 'CanvasClient' object has no attribute '" \o name \o "'")

\* Course.from_dict
Course_from_dict(d) == [id |-> d.id, name |-> Get(d, "name", "Unnamed")]

\* CanvasClient().get_course(course_id), as tests/test_canvas.py calls it:
\* the construction, then the lookup of the method; no request is issued.
Call_get_course ==
    /\ pc = "idle"
    /\ \E course_id \in 0..MaxCourses, has_url \in BOOLEAN, has_token \in BOOLEAN :
          LET client == Construct(has_url, has_token) IN
          Finish("get_course",
                 [course_id |-> course_id, constructed |-> ~client.raised],
                 NoValue,
                 IF client.raised THEN client ELSE Attribute("get_course"),
                 <<>>)
    /\ UNCHANGED appvars

(* ----------------------------- TokenTracker --------------------------- *)

\* Prices of the default model, in millionths of a dollar per 1K tokens.
PriceInput == 240
PriceOutput == 970

DefaultModel == "meta.llama4-maverick-17b-instruct-v1:0"

\* round(a / b) for naturals: to the nearest, a tie to the even one.
Round(a, b) ==
    LET q == a \div b
        r == a % b
    IN IF 2 * r < b THEN q
       ELSE IF 2 * r > b THEN q + 1
       ELSE IF q % 2 = 0 THEN q ELSE q + 1

\* The entry log_usage builds; the amounts are millionths of a dollar.  The
\* timestamp, the query preview and the response time are left out.
UsageEntry(model_id, input_tokens, output_tokens, tools_used, session_id) ==
    [model_id |-> model_id,
     input_tokens |-> input_tokens,
     output_tokens |-> output_tokens,
     total_tokens |-> input_tokens + output_tokens,
     estimated_cost_usd |-> Round(input_tokens * PriceInput + output_tokens * PriceOutput, 1000),
     tools_used |-> tools_used,
     session_id |-> session_id]

\* json.dumps(entry): one line of text, the keys in the order of the entry.
json_dumps(entry) ==
    "{\"model_id\": \"" \o entry.model_id
        \o "\", \"input_tokens\": " \o ToString(entry.input_tokens)
        \o ", \"output_tokens\": " \o ToString(entry.output_tokens)
        \o ", \"total_tokens\": " \o ToString(entry.total_tokens)
        \o ", \"estimated_cost_usd\": " \o ToString(entry.estimated_cost_usd)
        \o ", \"tools_used\": " \o (IF entry.tools_used THEN "true" ELSE "false")
        \o ", \"session_id\": \"" \o entry.session_id \o "\"}"

Digits == {ToString(d) : d \in 0..9}

\* The number written in the line from position p on.
RECURSIVE ReadInt(_, _, _)
ReadInt(line, p, acc) ==
    IF p > Len(line) \/ SubSeq(line, p, p) \notin Digits THEN acc
    ELSE ReadInt(line, p + 1,
                 acc * 10 + (CHOOSE d \in 0..9 : ToString(d) = SubSeq(line, p, p)))

\* json.loads(line).get(key, default) for a key whose value is a number.
json_loads_get(line, key, default) ==
    LET pat == "\"" \o key \o "\": "
        hits == {p \in 1..(Len(line) - Len(pat) + 1) :
                    SubSeq(line, p, p + Len(pat) - 1) = pat}
    IN IF hits = {} THEN default
       ELSE ReadInt(line, (CHOOSE p \in hits : \A q \in hits : p <= q) + Len(pat), 0)

\* token_usage.jsonl before the first log_usage.
AbsentFile == [exists |-> FALSE, lines |-> <<>>]

\* log_usage but that it opens the file for writing, not for appending.
log_usage_truncating(file, model_id, input_tokens, output_tokens, tools_used, session_id) ==
    [exists |-> TRUE,
     lines |-> <<json_dumps(UsageEntry(model_id, input_tokens, output_tokens,
                                        tools_used, session_id))>>]

\* log_usage: the file after the call, the entry appended as its last line.
log_usage(file, model_id, input_tokens, output_tokens, tools_used, session_id) ==
    [exists |-> TRUE,
     lines |-> Append(file.lines,
                      json_dumps(UsageEntry(model_id, input_tokens, output_tokens,
                                            tools_used, session_id)))]

\* The sum of the number under key over the lines of the file.
RECURSIVE SumOver(_, _)
SumOver(lines, key) ==
    IF lines = <<>> THEN 0
    ELSE json_loads_get(Head(lines), key, 0) + SumOver(Tail(lines), key)

\* get_summary: without a file the record has the key total_cost, with one
\* the keys total_cost_usd (in ten-thousandths of a dollar) and
\* avg_tokens_per_query.
get_summary(file) ==
    IF ~file.exists
    THEN [total_queries |-> 0, total_cost |-> 0, total_tokens |-> 0]
    ELSE LET queries == Len(file.lines)
             total_tokens == SumOver(file.lines, "total_tokens")
         IN [total_queries |-> queries,
             total_tokens |-> total_tokens,
             total_cost_usd |-> Round(SumOver(file.lines, "estimated_cost_usd"), 100),
             avg_tokens_per_query |-> IF queries > 0 THEN Round(total_tokens, queries) ELSE 0]

\* A log_usage call by whoever holds a tracker: the file grows by one line.
LogUsage(input_tokens, output_tokens, tools_used, session_id) ==
    /\ log_file' = log_usage(log_file, DefaultModel, input_tokens, output_tokens,
                             tools_used, session_id)
    /\ calls' = Append(calls, [input_tokens |-> input_tokens,
                               output_tokens |-> output_tokens])

\* CanvasAgent.chat: the usage of every answer is logged, whatever it is.
CanvasAgent_chat ==
    /\ Len(calls) < MaxUsage
    /\ \E input_tokens \in 0..MaxTokens, output_tokens \in 0..MaxTokens, tools_used \in BOOLEAN :
          LogUsage(input_tokens, output_tokens, tools_used, "agent")
    /\ UNCHANGED chats
    /\ UNCHANGED clientvars

(* ------------------------------ the chat UI --------------------------- *)

\* A chat nobody has opened yet.
NoChat ==
    [pc |-> "none", stdio |-> "none", mcp |-> "none", stored |-> FALSE,
     closed |-> <<>>, raised |-> ""]

\* The calls of on_chat_start that can fail, in order: stdio_client's
\* __aenter__, ClientSession's __aenter__, session.initialize, load_mcp_tools,
\* and the creation of the model and the agent.
StartStages == <<"connect", "enter", "initialize", "load_tools", "create_agent">>

StageAfter(stage) ==
    LET k == CHOOSE i \in 1..Len(StartStages) : StartStages[i] = stage IN
    IF k = Len(StartStages) THEN "ready" ELSE StartStages[k + 1]

\* on_chat_start up to its try block: the tracker and the session id are set.
on_chat_start(c) ==
    /\ chats[c].pc = "none"
    /\ chats' = [chats EXCEPT ![c].pc = StartStages[1]]
    /\ UNCHANGED <<log_file, calls>>
    /\ UNCHANGED clientvars

\* One call of the try block of on_chat_start.  It succeeds, and what it
\* opened is open; after the last one the agent, the session and the
\* connection are put into the user session.  Or it raises: the handler shows
\* the error and on_chat_start returns, with nothing put into the user session.
StartStep(c) ==
    /\ chats[c].pc \in SeqToSet(StartStages)
    /\ \E ok \in BOOLEAN :
          chats' = [chats EXCEPT ![c] =
              IF ~ok THEN [@ EXCEPT !.pc = "failed"]
              ELSE [@ EXCEPT !.pc = StageAfter(@),
                             !.stdio = IF chats[c].pc = "connect" THEN "open" ELSE @,
                             !.mcp = IF chats[c].pc = "enter" THEN "open" ELSE @,
                             !.stored = chats[c].pc = "create_agent"]]
    /\ UNCHANGED <<log_file, calls>>
    /\ UNCHANGED clientvars

\* on_message: without an agent in the user session a warning is shown;
\* otherwise the agent answers and the usage is logged if any token was
\* counted, or the agent raises and the error is shown.
on_message(c) ==
    /\ chats[c].pc \in {"ready", "failed"}
    /\ IF ~chats[c].stored
       THEN UNCHANGED <<log_file, calls>>
       ELSE \E raised \in BOOLEAN, input_tokens \in 0..MaxTokens, output_tokens \in 0..MaxTokens,
               tools_used \in BOOLEAN :
               IF ~raised /\ (input_tokens > 0 \/ output_tokens > 0) /\ Len(calls) < MaxUsage
               THEN LogUsage(input_tokens, output_tokens, tools_used, "chat" \o ToString(c))
               ELSE UNCHANGED <<log_file, calls>>
    /\ UNCHANGED chats
    /\ UNCHANGED clientvars

\* on_chat_end: the summary is shown, which reads summary['total_cost_usd'];
\* then the session and the connection found in the user session are closed,
\* the session first.
on_chat_end(c) ==
    /\ chats[c].pc \in {"ready", "failed"}
    /\ chats' = [chats EXCEPT ![c] =
           IF "total_cost_usd" \notin DOMAIN get_summary(log_file)
           THEN [@ EXCEPT !.pc = "ended", !.raised = "KeyError: 'total_cost_usd'"]
           ELSE IF chats[c].stored
           THEN [@ EXCEPT !.pc = "ended", !.mcp = "closed", !.stdio = "closed",
                          !.closed = <<"mcp_session", "stdio_context">>]
           ELSE [@ EXCEPT !.pc = "ended"]]
    /\ UNCHANGED <<log_file, calls>>
    /\ UNCHANGED clientvars

(* ------------------------------ the caller ---------------------------- *)

\* The caller (the orchestrator after a tool, or a direct user of the
\* client) takes the outcome; the client keeps nothing between calls.
Return ==
    /\ pc \in {"done", "replied"}
    /\ pc' = "idle"
    /\ op' = "none"
    /\ args' = NoValue
    /\ loc' = NoValue
    /\ resp' = NoValue
    /\ ret' = NoValue
    /\ log' = <<>>
    /\ statuses' = <<>>
    /\ out' = <<>>
    /\ reply' = NoValue
    /\ UNCHANGED appvars

Init ==
    /\ pc = "idle"
    /\ op = "none"
    /\ args = NoValue
    /\ loc = NoValue
    /\ resp = NoValue
    /\ ret = NoValue
    /\ log = <<>>
    /\ statuses = <<>>
    /\ out = <<>>
    /\ reply = NoValue
    /\ chats = [c \in 1..MaxChats |-> NoChat]
    /\ log_file = AbsentFile
    /\ calls = <<>>

Next ==
    \/ Call_get_upcoming_assignments
    \/ UpcomingStep
    \/ Call_get_course_summary
    \/ SummaryAssignmentsStep
    \/ SummaryAnnouncementsStep
    \/ Call_get_modules
    \/ Call_get_courses
    \/ Call_get_assignments
    \/ Call_get_all_grades
    \/ Call_get_announcements
    \/ Call_get_discussions
    \/ Call_get_course_files
    \/ Call_get_quizzes
    \/ Call_get_quiz_submissions
    \/ Call_get_grades
    \/ Call_get_calendar_events
    \/ CalendarStep
    \/ Tool_get_assignment_submission
    \/ Call_get_course
    \/ ToolReturn
    \/ Return

Spec == Init /\ [][Next]_vars

\* The chat application and the token log, the client left aside.
AppNext ==
    \/ \E c \in 1..MaxChats : on_chat_start(c)
    \/ \E c \in 1..MaxChats : StartStep(c)
    \/ \E c \in 1..MaxChats : on_message(c)
    \/ \E c \in 1..MaxChats : on_chat_end(c)
    \/ CanvasAgent_chat

AppSpec == Init /\ [][AppNext]_vars

(* ======================= get_upcoming_assignments ===================== *)

\* get_upcoming_assignments has fetched the course list and is in its loop
\* or has returned.
UpcomingRan ==
    /\ op = "get_upcoming_assignments"
    /\ pc \in {"upcoming_course", "done"}
    /\ pc = "done" => ~ret.raised

\* The list it has built so far, or returned.
UpcomingList == IF pc = "done" THEN ret.value ELSE loc.upcoming

\* The course whose assignments the last step asked for.
LastCourse == loc.courses[loc.i - 1]

\* A raw due date, read as UTC, lies in [now, future].
RawInWindow(due, now, future) ==
    /\ due.kind \in {"isoZ", "isoNaive"}
    /\ now <= due.t
    /\ due.t <= future

\* C1: for every course whose assignment fetch succeeds, every assignment of
\* that course whose raw due date lies within [now, now+days] is in the list,
\* with the course's name and code attached.
C1_InWindowKept ==
    (UpcomingRan /\ loc.i > 1 /\ resp.status = 200) =>
        \A k \in 1..Len(resp.body) :
            RawInWindow(resp.body[k].due_at, loc.now, loc.future) =>
                \E j \in 1..Len(UpcomingList) :
                    /\ UpcomingList[j].id = resp.body[k].id
                    /\ UpcomingList[j].due_at_raw = resp.body[k].due_at
                    /\ UpcomingList[j].course_name = LastCourse.name
                    /\ UpcomingList[j].course_code = LastCourse.course_code

\* C2: every assignment in the list get_upcoming_assignments builds and
\* returns has a raw due date in [now, now+days]; an assignment without a due
\* date or due outside the window is never in it.
C2_ReturnedInWindow ==
    UpcomingRan =>
        \A j \in 1..Len(UpcomingList) :
            RawInWindow(UpcomingList[j].due_at_raw, loc.now, loc.future)

\* The operation has returned after fetching a course that has an assignment
\* without a due date and one due outside the window.
C2_Witness ==
    /\ UpcomingRan /\ pc = "done" /\ loc.i > 1 /\ resp.status = 200
    /\ \E k \in 1..Len(resp.body) : resp.body[k].due_at = NoneDate
    /\ \E k \in 1..Len(resp.body) : resp.body[k].due_at = IsoZ(loc.future + 1)

\* The requests the operation issues when no per-course failure stops it: the
\* course list, then the assignments of the first n courses in order.
UpcomingRequests(courses, n) ==
    <<Req("courses")>> \o [k \in 1..n |-> Req(AssignmentsEndpoint(courses[k].id))]

\* C4: a failed assignment fetch for one course is caught and the course
\* skipped: the list built so far is left as it is, the loop goes on to the
\* next course (every course of the list gets its request), and the
\* operation returns normally; it raises only when the course list itself
\* cannot be fetched.
C4_FailureSkipsCourse ==
    /\ [](op = "get_upcoming_assignments" =>
            /\ pc = "upcoming_course" => log = UpcomingRequests(loc.courses, loc.i - 1)
            /\ (pc = "done" /\ ret.raised) => (Len(log) = 1 /\ get_courses(resp).raised)
            /\ (pc = "done" /\ ~ret.raised) =>
                   log = UpcomingRequests(loc.courses, Len(loc.courses)))
    /\ [][(op = "get_upcoming_assignments" /\ pc = "upcoming_course"
              /\ resp'.status # 200) =>
            /\ pc' = "upcoming_course" \/ (pc' = "done" /\ ~ret'.raised)
            /\ SeqToSet(UpcomingList') = SeqToSet(loc.upcoming)
            /\ loc.i < Len(loc.courses) => (pc' = "upcoming_course" /\ loc'.i = loc.i + 1)
            /\ loc.i = Len(loc.courses) => pc' = "done"]_vars

\* The fetch for the first of two courses failed, the second was still
\* fetched, and the operation returned.
C4_Witness ==
    /\ UpcomingRan /\ pc = "done" /\ Len(loc.courses) = 2
    /\ resp.status = 200 /\ Len(resp.body) > 0
    /\ Len(log) = 3
    /\ \E f \in Failures :
          out[1] = "Error fetching assignments for " \o CourseName(1) \o ": "
                       \o make_request(AssignmentsEndpoint(1), f).exc

(* ========================== get_course_summary ======================== *)

\* get_course_summary found its course in the course list: the enrollments
\* request, its second, is issued only then.
SummaryCourseFound == op = "get_course_summary" /\ Len(log) >= 2

\* C5: for a course that exists in the course list, a failure of any one
\* sub-fetch (grades, assignments, announcements) still returns a summary
\* record; the summary is never replaced by an error record.
C5_SubFetchFailureKeepsSummary ==
    (SummaryCourseFound /\ pc = "done") =>
        /\ "error" \notin DOMAIN ret.value
        /\ {"course_name", "grades", "upcoming_assignments", "recent_announcements"}
               \subseteq DOMAIN ret.value

\* The ids, in order, of the raw assignments due within [now, future].
RECURSIVE IdsInWindow(_, _, _, _)
IdsInWindow(body, k, now, future) ==
    IF k > Len(body) THEN <<>>
    ELSE (IF RawInWindow(body[k].due_at, now, future) THEN <<body[k].id>> ELSE <<>>)
             \o IdsInWindow(body, k + 1, now, future)

\* C6: when all fetches succeed, the upcoming_assignments section holds
\* exactly the course's assignments whose raw due date lies within the next
\* 7 days from now.
C6_SummaryUpcomingExact ==
    (op = "get_course_summary" /\ pc = "summary_announcements" /\ resp.status = 200) =>
        [j \in 1..Len(loc.summary.upcoming_assignments) |->
                loc.summary.upcoming_assignments[j].id]
            = IdsInWindow(resp.body, 1, loc.now, loc.now + SummaryDays)

\* C7: when all fetches succeed, the recent_announcements section holds
\* announcements of the requested course only, at most 3 of them.
C7_SummaryAnnouncementsOwnCourse ==
    (SummaryCourseFound /\ pc = "done" /\ "error" \notin DOMAIN ret.value) =>
        /\ Len(ret.value.recent_announcements) <= AnnouncementLimit
        /\ \A j \in 1..Len(ret.value.recent_announcements) :
              ret.value.recent_announcements[j].course_id = ToString(args.course_id)

(* ============================== get_modules =========================== *)

ModulesDone == op = "get_modules" /\ pc = "done" /\ ~ret.raised

\* The returned list is the single synthetic "Course Files" module.
ReturnsSynthetic ==
    /\ Len(ret.value) = 1
    /\ "is_files_fallback" \in DOMAIN ret.value[1]
    /\ ret.value[1].is_files_fallback
    /\ ret.value[1].name = "Course Files"

ModulesFetchEmpty == resp.modules.status = 200 /\ resp.modules.body = <<>>
ModulesFetchFailed == resp.modules.status # 200

\* The modules fetch returned modules, one of which lacks a field the client
\* reads without a default.
ModulesUnreadable ==
    /\ resp.modules.status = 200
    /\ \E k \in 1..Len(resp.modules.body) : ~ModuleReadable(resp.modules.body[k])

\* get_course_files, called by the fallback, returned at least one file.
FilesFound ==
    /\ resp.files.status = 200
    /\ resp.files.body # <<>>
    /\ \A j \in 1..Len(resp.files.body) : "id" \in DOMAIN resp.files.body[j]

\* C8 as stated: get_modules returns the synthetic module if and only if the
\* raw modules fetch returns an empty list.
C8_SyntheticIffEmpty == ModulesDone => (ReturnsSynthetic <=> ModulesFetchEmpty)

\* C8 as amended: get_modules returns the synthetic module if and only if the
\* raw modules fetch returns an empty list, fails, or returns a module that
\* cannot be read, and the files fetch then yields at least one file.
C8_SyntheticIffFallbackWithFiles ==
    ModulesDone =>
        (ReturnsSynthetic <=>
            /\ ModulesFetchEmpty \/ ModulesFetchFailed \/ ModulesUnreadable
            /\ FilesFound)

\* The modules fetch failed, the files fetch found files, and the synthetic
\* module came back.
C8_Witness ==
    /\ ModulesDone /\ ModulesFetchFailed /\ ReturnsSynthetic
    /\ Len(log) = 2

\* The returned list holds one record per raw module, in the same order, and
\* none of them is the synthetic module or a sentinel.
ReturnsRealModules ==
    /\ Len(ret.value) = Len(resp.modules.body)
    /\ \A k \in 1..Len(ret.value) :
          /\ "is_files_fallback" \notin DOMAIN ret.value[k]
          /\ "id" \in DOMAIN ret.value[k]
          /\ ret.value[k].id = resp.modules.body[k].id
          /\ "name" \in DOMAIN resp.modules.body[k] =>
                 ret.value[k].name = resp.modules.body[k].name

\* C9 as stated: when the raw modules fetch returns a non-empty list, the
\* operation returns one normalized record per raw module, in the same order.
C9_RealModulesSameCount ==
    (ModulesDone /\ resp.modules.status = 200 /\ resp.modules.body # <<>>) =>
        ReturnsRealModules

\* C9 as amended: when the raw modules fetch returns a non-empty list whose
\* modules all carry the fields the client reads without a default, the
\* operation returns one normalized record per raw module, in the same order.
C9_ReadableModulesSameCount ==
    (ModulesDone /\ resp.modules.status = 200 /\ resp.modules.body # <<>>
        /\ ~ModulesUnreadable) =>
        ReturnsRealModules

\* Two real modules came back as two records: one of them has no item, the
\* other more items than the client keeps, the last of them without a title.
C9_Witness ==
    /\ ModulesDone /\ resp.modules.status = 200
    /\ Len(resp.modules.body) = 2 /\ Len(ret.value) = 2
    /\ \E k \in 1..2 : resp.modules.body[k].items = <<>>
    /\ \E k \in 1..2 :
          /\ Len(resp.modules.body[k].items) > ModuleItemLimit
          /\ "title" \notin DOMAIN resp.modules.body[k].items[ModuleItemLimit + 1]
          /\ Len(ret.value[k].items) = ModuleItemLimit

(* ===================== lists of records or one sentinel =============== *)

\* The client operations that return a list.
ListOperations ==
    {"get_courses", "get_assignments", "get_upcoming_assignments", "get_all_grades",
     "get_announcements", "get_discussions", "get_course_files",
     "get_calendar_events", "get_modules", "get_quizzes", "get_quiz_submissions"}

\* A sentinel record: {"error": ...} or {"message": ...} and nothing else.
IsSentinel(record) == DOMAIN record \in {{"error"}, {"message"}}

ListReturned == pc = "done" /\ op \in ListOperations /\ ~ret.raised

\* C10: a list-returning operation that returns yields either data records
\* only or exactly one sentinel record; a sentinel never shares a list with
\* data records, whichever of the underlying requests fail.
C10_DataOrSingleSentinel ==
    ListReturned =>
        \/ \A k \in 1..Len(ret.value) : ~IsSentinel(ret.value[k])
        \/ Len(ret.value) = 1 /\ IsSentinel(ret.value[1])

\* get_all_grades over two courses: the grades of the first could not be
\* fetched, those of the second could, and the list holds the second only.
C10_Witness ==
    /\ ListReturned /\ op = "get_all_grades"
    /\ resp.courses.status = 200 /\ Len(resp.courses.body) = 2
    /\ resp.grades[1].status # 200 /\ resp.grades[2].status = 200
    /\ Len(ret.value) = 1 /\ ~IsSentinel(ret.value[1])

(* =============================== MCP tools ============================ *)

PlainFetches == {"get_courses", "get_assignments", "get_grades", "get_course_files"}
PlainFetched == pc = "done" /\ op \in PlainFetches

StartsWith(text, prefix) ==
    Len(text) >= Len(prefix) /\ SubSeq(text, 1, Len(prefix)) = prefix

\* The condition a message of _make_request stands for.
Condition(msg) ==
    IF StartsWith(msg, "Unauthorized: ") THEN "Unauthorized"
    ELSE IF StartsWith(msg, "Forbidden: ") THEN "Forbidden"
    ELSE IF StartsWith(msg, "Not found: ") THEN "NotFound"
    ELSE IF StartsWith(msg, "HTTP ") THEN "HttpError"
    ELSE IF StartsWith(msg, "Request failed: ") THEN "RequestFailed"
    ELSE "other"

\* C12: a 401 surfaces as Unauthorized, a 403 as Forbidden and a 404 as
\* NotFound, never as the generic HTTP failure or the transport failure.
C12_StatusHasOwnCondition ==
    PlainFetched =>
        /\ resp.status = 401 => (ret.raised /\ Condition(ret.exc) = "Unauthorized")
        /\ resp.status = 403 => (ret.raised /\ Condition(ret.exc) = "Forbidden")
        /\ resp.status = 404 => (ret.raised /\ Condition(ret.exc) = "NotFound")

\* A plain fetch got a 401 and raised.
C12_Witness == PlainFetched /\ op = "get_assignments" /\ resp.status = 401 /\ ret.raised

\* A response with a status that is not 2xx (status 0 stands for no response).
NonSuccess == resp.status \notin {200, 0}

\* C13 as stated: for every non-2xx response the message of the condition
\* carries both the requested endpoint and the status code.
C13_MessageHasEndpointAndStatus ==
    (PlainFetched /\ NonSuccess) =>
        /\ ret.raised
        /\ Contains(log[1].endpoint, ret.exc)
        /\ Contains(ToString(resp.status), ret.exc)

\* C13 as amended: the messages for 401 and 403 are fixed texts, the message
\* for 404 is "Not found: " and the endpoint, and only the message for any
\* other status carries the status code, followed by the text of the HTTP
\* error, which names the URL and so the endpoint.
C13_MessagePerStatus ==
    (PlainFetched /\ NonSuccess) =>
        /\ ret.raised
        /\ resp.status = 401 => ret.exc = "Unauthorized: Check your Canvas access token"
        /\ resp.status = 403 => ret.exc = "Forbidden: Insufficient permissions"
        /\ resp.status = 404 => ret.exc = "Not found: " \o log[1].endpoint
        /\ resp.status \notin {401, 403, 404} =>
              /\ StartsWith(ret.exc, "HTTP " \o ToString(resp.status) \o ": ")
              /\ Contains(log[1].endpoint, ret.exc)

\* A plain fetch got a 500.
C13_Witness == PlainFetched /\ op = "get_course_files" /\ resp.status = 500 /\ ret.raised

(* ============================= get_discussions ======================== *)

DiscussionsListed ==
    /\ op = "get_discussions" /\ pc = "done"
    /\ resp.status = 200 /\ resp.body # <<>>

\* The text holds an HTML tag: a "<", then one or more characters other than
\* ">", then a ">".
HasTag(t) ==
    \E s \in 1..Len(t) :
        /\ t[s] = "<"
        /\ \E c \in (s + 2)..Len(t) :
              /\ t[c] = ">"
              /\ \A j \in (s + 1)..(c - 1) : t[j] # ">"

\* C14: every message get_discussions returns holds no HTML tag and is at
\* most 303 characters long: up to 300 characters of text, and "..." after
\* them when the text was cut.
C14_MessageTagFreeAndShort ==
    DiscussionsListed =>
        \A k \in 1..Len(ret.value) :
            LET m == ret.value[k].message IN
            /\ ~HasTag(m)
            /\ Len(m) <= DiscussionLimit + 3
            /\ Len(m) > DiscussionLimit =>
                  /\ Len(m) = DiscussionLimit + 3
                  /\ SubSeq(m, DiscussionLimit + 1, DiscussionLimit + 3) = <<".", ".", ".">>

\* A body with markup and more than 300 characters of text came back cut to
\* 303 characters.
C14_Witness ==
    /\ DiscussionsListed
    /\ \E k \in 1..Len(ret.value) :
          /\ resp.body[k].message.kind = "text"
          /\ HasTag(resp.body[k].message.text)
          /\ Len(ret.value[k].message) = DiscussionLimit + 3

(* ============================= get_assignments ======================== *)

\* C15: every element get_assignments returns has a boolean submitted field
\* that is true exactly when the caller's own submission for the assignment
\* has a submitted_at that is not null.
C15_SubmittedIffSubmittedAt ==
    (op = "get_assignments" /\ pc = "done" /\ ~ret.raised) =>
        \A k \in 1..Len(ret.value) :
            /\ ret.value[k].submitted \in BOOLEAN
            /\ ret.value[k].submitted <=> (resp.body[k].submission.submitted_at # Null)

(* =============================== format_date ========================== *)

AssignmentsListed == op = "get_assignments" /\ pc = "done" /\ resp.status = 200

\* C16 as stated: a null due date is shown as "No date", every string that
\* is not an ISO date comes back unchanged, and format_date never raises.
C16_NoDateOrUnchanged ==
    AssignmentsListed =>
        /\ ~ret.raised
        /\ \A k \in 1..Len(resp.body) :
              LET raw == resp.body[k].due_at IN
              /\ raw.kind = "None" => ret.value[k].due_at = NoDateText
              /\ raw.kind \in {"malformed", "empty"} => ret.value[k].due_at = raw

\* C16 as amended: a null due date and the empty string are shown as
\* "No date", every other string that is not an ISO date comes back
\* unchanged, and format_date never raises.
C16_NoDateOrUnchangedNonEmpty ==
    AssignmentsListed =>
        /\ ~ret.raised
        /\ \A k \in 1..Len(resp.body) :
              LET raw == resp.body[k].due_at IN
              /\ raw.kind \in {"None", "empty"} => ret.value[k].due_at = NoDateText
              /\ raw.kind = "malformed" => ret.value[k].due_at = raw

\* get_assignments formatted a malformed due date and an empty one.
C16_Witness ==
    /\ AssignmentsListed /\ ~ret.raised
    /\ \E k \in 1..Len(resp.body) : resp.body[k].due_at = Malformed
    /\ \E k \in 1..Len(resp.body) : resp.body[k].due_at = EmptyDate

(* ============================== get_all_grades ======================== *)

\* get_all_grades has run its loop: get_courses returned the course list.
AllGradesLooped ==
    /\ op = "get_all_grades" /\ pc = "done"
    /\ ~get_courses(resp.courses).raised

\* The positions in the course list of the courses whose grade fetch succeeded.
GradedCourses == {k \in 1..Len(resp.courses.body) : resp.grades[k].status = 200}

\* The i-th of them.
GradedCourse(i) == CHOOSE k \in GradedCourses : Cardinality({j \in GradedCourses : j < k}) = i - 1

\* C17: when the course list is fetched, get_all_grades returns exactly one
\* entry per course whose grade fetch succeeded, in the order of the course
\* list; a course whose grade fetch fails is skipped without a word and the
\* entries of the other courses are returned all the same.
C17_OneEntryPerGradedCourse ==
    AllGradesLooped =>
        /\ ~ret.raised
        /\ out = <<>>
        /\ Len(ret.value) = Cardinality(GradedCourses)
        /\ \A i \in 1..Len(ret.value) :
              LET course == resp.courses.body[GradedCourse(i)] IN
              /\ ret.value[i].course_id = ToString(course.id)
              /\ ret.value[i].course_name = course.name
              /\ ret.value[i].grades
                     = get_grades(ToString(course.id), resp.grades[GradedCourse(i)]).value

\* Two courses: the grades of the first were fetched, those of the second
\* were not, and the entry of the first came back.
C17_Witness ==
    /\ AllGradesLooped /\ Len(resp.courses.body) = 2
    /\ resp.grades[1].status = 200 /\ resp.grades[2].status = 403
    /\ Len(ret.value) = 1 /\ ret.value[1].course_id = "1"

(* ============================ get_calendar_events ===================== *)

\* get_calendar_events is about to act on the answer to its calendar request.
CalendarAnswered == op = "get_calendar_events" /\ pc = "calendar"

\* C18: after a successful calendar request the result is the normalized
\* events of the answer and nothing else is requested; after a failed one
\* get_upcoming_assignments(days_ahead) starts with its course request, and
\* the outcome is its outcome, never the calendar failure.  The courses are
\* requested only after a calendar failure.
C18_EventsOrFallback ==
    /\ [][CalendarAnswered =>
            IF resp.status = 200
            THEN /\ pc' = "done" /\ ~ret'.raised
                 /\ Len(ret'.value) = Len(resp.body)
                 /\ \A k \in 1..Len(resp.body) :
                       /\ ret'.value[k].id = resp.body[k].id
                       /\ ret'.value[k].title = resp.body[k].title
                 /\ log' = log
            ELSE /\ log' = Append(log, Req("courses"))
                 /\ \/ pc' = "upcoming_course" /\ loc'.future = loc'.now + args.days_ahead
                    \/ pc' = "done" /\ ret' = Raise(get_courses(resp').exc)
                    \/ pc' = "done" /\ ret' = UpcomingDone(<<>>)]_vars
    /\ [](op = "get_calendar_events" /\ Len(log) > 1 =>
             /\ out # <<>>
             /\ StartsWith(out[1], "Calendar API failed, using assignments: ")
             /\ pc = "done" /\ ret.raised =>
                   /\ ret = Raise(get_courses(resp).exc)
                   /\ ~Contains("calendar_events", ret.exc)
             /\ pc = "done" /\ ~ret.raised => ret = UpcomingDone(loc.upcoming))

\* The calendar request failed with a 403, the fallback fetched the courses
\* and the assignments of one, and its list was returned.
C18_Witness ==
    /\ op = "get_calendar_events" /\ pc = "done" /\ ~ret.raised
    /\ Len(log) = 3
    /\ out[1] = "Calendar API failed, using assignments: Forbidden: Insufficient permissions"

(* ======================= get_assignment_submission ==================== *)

\* The tool get_assignment_submission has answered after fetching the
\* assignments.
SubmissionByNameDone ==
    /\ op = "get_assignment_submission" /\ pc = "replied"
    /\ resp.assignments.status = 200

\* The positions of the assignments whose name holds the given text, letter
\* case aside.
MatchingAssignments ==
    {k \in 1..Len(resp.assignments.body) :
        Contains(Lower(args.assignment_name), Lower(resp.assignments.body[k].name))}

\* C19: the submission requested is that of the first assignment, in fetched
\* order, whose name contains the given text as a case-insensitive substring;
\* if none does, an error record is returned and no submission is requested.
C19_FirstMatchOrError ==
    SubmissionByNameDone =>
        IF MatchingAssignments = {}
        THEN /\ log = <<Req(AssignmentsEndpoint(args.course_id))>>
             /\ ~reply.raised /\ DOMAIN reply.value = {"error"}
        ELSE LET first == CHOOSE k \in MatchingAssignments :
                              \A j \in MatchingAssignments : k <= j
             IN log = <<Req(AssignmentsEndpoint(args.course_id)),
                        Req(SubmissionEndpoint(args.course_id,
                                               resp.assignments.body[first].id))>>

\* "quiz" was asked for, the first assignment is HW and the second Quiz: the
\* submission of the second was fetched.
C19_Witness ==
    /\ SubmissionByNameDone
    /\ args.assignment_name = <<"q", "u", "i", "z">>
    /\ Len(resp.assignments.body) = 2
    /\ resp.assignments.body[1].name = NameHW /\ resp.assignments.body[2].name = NameQuiz
    /\ Len(log) = 2 /\ log[2].endpoint = SubmissionEndpoint(args.course_id, 2)
    /\ "score" \in DOMAIN reply.value

(* =========================== get_quiz_submissions ===================== *)

QuizSubmissionsDone == op = "get_quiz_submissions" /\ pc = "done" /\ ~ret.raised

\* C20 as stated: the list get_quiz_submissions returns never holds a record
\* keyed "message" nor a record keyed "error".
C20_NoSentinelReturned ==
    QuizSubmissionsDone =>
        \A k \in 1..Len(ret.value) :
            "message" \notin DOMAIN ret.value[k] /\ "error" \notin DOMAIN ret.value[k]

\* C20 as amended: the list never holds a record keyed "message": when the
\* course has no quiz it is empty, and otherwise it is the list of get_quizzes.
\* The error record of get_quizzes is not filtered out: when the assignments
\* cannot be fetched it is the one element of the list.
C20_MessageFilteredErrorKept ==
    QuizSubmissionsDone =>
        /\ \A k \in 1..Len(ret.value) : "message" \notin DOMAIN ret.value[k]
        /\ resp.status # 200 =>
              ret.value = <<[error |-> "Could not fetch quizzes: "
                                           \o make_request(log[1].endpoint, resp).exc]>>
        /\ resp.status = 200 =>
              /\ \A k \in 1..Len(ret.value) :
                    "error" \notin DOMAIN ret.value[k] /\ ret.value[k].is_quiz
              /\ Len(ret.value) = Cardinality({j \in 1..Len(resp.body) :
                                      NormalizeAssignment(resp.body[j]).is_quiz})

\* The course has an assignment but no quiz: get_quizzes would answer with
\* its "No quizzes found" record, get_quiz_submissions returns the empty list.
C20_Witness ==
    /\ QuizSubmissionsDone /\ resp.status = 200
    /\ resp.body # <<>> /\ ret.value = <<>>
    /\ get_quizzes(args.course_id, resp).value
           = <<[message |-> "No quizzes found for this course"]>>

(* ============================== requests ============================== *)

\* Request k of the call in progress was answered with a failure.
FailedRequest(k) == statuses[k] # 200

\* C21: every request of a call has its answer on record, and a request
\* that was answered with a failure is not issued again later in the same
\* call: whatever follows it goes to another endpoint.
C21_FailedRequestNotReissued ==
    /\ Len(statuses) = Len(log)
    /\ \A i \in 1..Len(log) : \A j \in (i + 1)..Len(log) :
          FailedRequest(i) => log[j] # log[i]

\* A call has gone on to another request after a failed one.
C21_RequestAfterFailure ==
    /\ op = "get_modules" /\ pc = "done"
    /\ Len(log) = 2 /\ FailedRequest(1)
    /\ log[2] = Req(FilesEndpoint(args.course_id))

\* C22: whatever has been called and however it ended, every request on
\* the wire is a GET without a body.
C22_OnlyBodilessGets ==
    \A k \in 1..Len(log) : log[k].method = "GET" /\ ~log[k].has_body

\* A call that fell back has issued several requests.
C22_FallbackRequestsIssued ==
    /\ op = "get_calendar_events" /\ pc = "done"
    /\ Len(log) >= 3 /\ FailedRequest(1)

(* ============================== get_course ============================ *)

\* C23: on a constructed client, get_course(0) raises ValueError, and
\* get_course of a valid id returns a record with that id from which
\* Course.from_dict builds a Course of the record's name.
C23_GetCourseByIdOrValueError ==
    op = "get_course" /\ pc = "done" /\ args.constructed =>
        IF args.course_id = 0
        THEN ret.raised /\ StartsWith(ret.exc, "ValueError")
        ELSE /\ ~ret.raised
             /\ ret.value.id = args.course_id
             /\ Course_from_dict(ret.value).name = ret.value.name

(* ========================== sentinel detection ======================== *)

\* The record has a key that callers read as "not data".
HasSentinelKey(record) == DOMAIN record \cap {"error", "message"} # {}

\* C24: in the list an operation returns, a record with a top-level "error"
\* or "message" key is a sentinel and never a normalized data record.
C24_SentinelKeyOnlyOnSentinels ==
    ListReturned =>
        \A k \in 1..Len(ret.value) :
            HasSentinelKey(ret.value[k]) => IsSentinel(ret.value[k])

(* ============================== get_courses =========================== *)

\* C25: after a successful courses request get_courses returns one record
\* per course of the answer, in order; a course with an empty enrollments
\* list has a null current_grade and a course with a null term an empty
\* enrollment_term, and neither makes the operation raise.
C25_RecordForEveryCourse ==
    op = "get_courses" /\ pc = "done" /\ resp.status = 200 =>
        /\ ~ret.raised
        /\ Len(ret.value) = Len(resp.body)
        /\ \A k \in 1..Len(resp.body) :
              /\ ret.value[k].id = resp.body[k].id
              /\ resp.body[k].has_enrollments /\ resp.body[k].enrollments = <<>>
                    => ret.value[k].current_grade = Null
              /\ resp.body[k].term = Null => ret.value[k].enrollment_term = ""

(* ================= get_upcoming_assignments: undated work ============= *)

\* The raw due date is missing or is not an ISO date.
Undated(due) == due.kind \in {"None", "malformed"}

\* C26: in a course whose fetch succeeded and that has an assignment
\* without a due date or with an unparseable one, the other assignments due
\* within the window are still in the list, and the undated one is not.
C26_UndatedSkippedAlone ==
    (/\ UpcomingRan /\ loc.i > 1 /\ resp.status = 200
     /\ \E u \in 1..Len(resp.body) : Undated(resp.body[u].due_at)) =>
        \A k \in 1..Len(resp.body) :
            IF Undated(resp.body[k].due_at)
            THEN \A j \in 1..Len(UpcomingList) :
                    ~(UpcomingList[j].id = resp.body[k].id
                        /\ UpcomingList[j].course_name = LastCourse.name)
            ELSE RawInWindow(resp.body[k].due_at, loc.now, loc.future) =>
                    \E j \in 1..Len(UpcomingList) :
                        /\ UpcomingList[j].id = resp.body[k].id
                        /\ UpcomingList[j].course_name = LastCourse.name

(* ============ the tool get_assignment_submission: failures ============ *)

\* C27: the tool by name does not raise; when the assignments request or
\* the submission request has failed, what it hands on is a record with an
\* "error" key.
C27_ByNameFailsSoftly ==
    op = "get_assignment_submission" /\ pc = "replied" =>
        /\ ~reply.raised
        /\ (\E k \in 1..Len(statuses) : FailedRequest(k)) =>
               "error" \in DOMAIN reply.value

(* ====================== get_modules: every outcome ==================== *)

\* get_course_files, called by the fallback, raised: the request failed or
\* a file of the answer has no id.
FilesFetchFailed ==
    \/ resp.files.status # 200
    \/ \E j \in 1..Len(resp.files.body) : "id" \notin DOMAIN resp.files.body[j]

\* C28: get_modules never raises, whatever the modules request and the
\* files request are answered with.  It returns a non-empty list that is
\* the real modules, or the single synthetic module (files were found), or
\* the single "message" record (no files), or the single "error" record
\* (the files fetch failed).
C28_ModulesNeverRaises ==
    op = "get_modules" /\ pc = "done" =>
        /\ ~ret.raised
        /\ Len(ret.value) >= 1
        /\ \/ /\ resp.modules.status = 200 /\ resp.modules.body # <<>>
              /\ ~ModulesUnreadable
              /\ ReturnsRealModules
           \/ ReturnsSynthetic /\ FilesFound
           \/ /\ ret.value = <<[message |-> "No modules or files found for this course"]>>
              /\ resp.files.status = 200 /\ resp.files.body = <<>>
           \/ /\ Len(ret.value) = 1
              /\ DOMAIN ret.value[1] = {"error"}
              /\ FilesFetchFailed

\* A module of the answer could not be read, and the files request failed
\* in its turn: the error record came back.
C28_BothFailed ==
    /\ op = "get_modules" /\ pc = "done"
    /\ ModulesUnreadable
    /\ resp.files.status # 200
    /\ ~ret.raised /\ DOMAIN ret.value[1] = {"error"}

(* ========================== the chat's resources ====================== *)

\* on_chat_end has run for chat c, to its end or to an exception.
ChatEnded(c) == chats[c].pc = "ended"

\* C29: once on_chat_end has run for a chat, the MCP session and the stdio
\* connection that on_chat_start opened for it are closed, the session
\* first, also when on_chat_start failed after opening them.
C29_OpenedIsClosedAtChatEnd ==
    \A c \in 1..MaxChats :
        ChatEnded(c) =>
            /\ chats[c].stdio # "open"
            /\ chats[c].mcp # "open"
            /\ chats[c].mcp = "closed" => chats[c].closed = <<"mcp_session", "stdio_context">>

(* ============================= TokenTracker =========================== *)

\* The tokens of the log_usage calls made so far.
RECURSIVE TokensOf(_)
TokensOf(cs) ==
    IF cs = <<>> THEN 0
    ELSE Head(cs).input_tokens + Head(cs).output_tokens + TokensOf(Tail(cs))

\* C30: from an absent log file on, get_summary reports as total_queries
\* the number of log_usage calls made and as total_tokens the sum of their
\* input and output tokens; a step changes the file only by adding lines
\* after the ones it has.
C30_SummaryCountsEveryCall ==
    /\ [](/\ get_summary(log_file).total_queries = Len(calls)
          /\ get_summary(log_file).total_tokens = TokensOf(calls))
    /\ [][/\ Len(log_file'.lines) >= Len(log_file.lines)
          /\ SubSeq(log_file'.lines, 1, Len(log_file.lines)) = log_file.lines]_vars

\* Two calls with tokens have been logged, by different callers.
C30_TwoCallsLogged ==
    /\ Len(calls) = 2
    /\ calls[1].input_tokens + calls[1].output_tokens > 0
    /\ calls[2].input_tokens + calls[2].output_tokens > 0
    /\ log_file.lines[1] # log_file.lines[2]
    /\ get_summary(log_file).total_queries = 2
====
